---------------------------- MODULE Spec2Model ----------------------------
(***************************************************************************)
(* Code-Explainer-Tutor (src/src/index.ts, src/src/db/schema.ts).          *)
(*                                                                         *)
(* Text is modelled as a sequence of tokens.  A token is either one        *)
(* character that some pattern of the program looks at (a newline, a       *)
(* space, a digit, a punctuation mark that a pattern names) or a run of    *)
(* characters that no pattern looks into (a word such as "Question", an    *)
(* entity tail such as "amp;").  Every pattern of the program is modelled  *)
(* on these sequences exactly as it works on characters.                   *)
(***************************************************************************)
EXTENDS Bags, FiniteSets, Integers, Sequences, TLC

VARIABLES
  str, escaped,                 \* escapeHtml: argument, returned value
  markdown, html,               \* markdownToHtml: argument, returned value
  diagramDescription, diagram,  \* generateDiagramImage: argument, outcome
  quizzes, quizAttempts, response,  \* the quiz tables and the last response
  repositories, explanations,   \* the other two tables of the database
  r2,                           \* the keys of the objects in the bucket
  requests,                     \* GitHub ingestions between lookup and insert
  files, languages              \* detectLanguages: argument, returned value

vars == <<str, escaped, markdown, html, diagramDescription, diagram,
          quizzes, quizAttempts, response, repositories, explanations, r2,
          requests, files, languages>>

\* The value of a variable whose function has not been called (yet).
None == <<"none">>

\* No call of generateDiagramImage has been made.
NoDiagram == [promise |-> "none", value |-> <<>>, invoked |-> <<>>]

\* No request has been answered.
NoResponse == [route |-> "none", status |-> 0]

(***************************************************************************)
(* Bounds of the model.                                                    *)
(***************************************************************************)
MaxStrLen == 3

(***************************************************************************)
(* Generic sequence helpers.                                               *)
(***************************************************************************)
\* lit occurs in s at position i.
StartsAt(s, i, lit) ==
  /\ i >= 1
  /\ i + Len(lit) - 1 <= Len(s)
  /\ \A k \in 1..Len(lit) : s[i + k - 1] = lit[k]

\* String.prototype.includes.
Includes(s, lit) == \E i \in 1..(Len(s) + 1) : StartsAt(s, i, lit)

\* The least element of a set of positions, 0 for the empty set.
Least(P) == IF P = {} THEN 0 ELSE CHOOSE a \in P : \A b \in P : a <= b

\* The least index >= i at which lit occurs in s, or 0.
IndexOf(s, i, lit) == Least({k \in i..Len(s) : StartsAt(s, k, lit)})

\* s[i..j-1], the empty sequence when j <= i.
Slice(s, i, j) == IF j <= i THEN <<>> ELSE SubSeq(s, i, j - 1)

\* The sequences over S of length at most n.
SeqsUpTo(S, n) == UNION {[1..k -> S] : k \in 0..n}

RECURSIVE Flatten(_)
Flatten(ss) == IF ss = <<>> THEN <<>> ELSE Head(ss) \o Flatten(Tail(ss))

(***************************************************************************)
(* String.prototype.replace of every occurrence of one character c.        *)
(***************************************************************************)
RECURSIVE ReplaceChar(_, _, _)
ReplaceChar(s, c, to) ==
  IF s = <<>> THEN <<>>
  ELSE (IF Head(s) = c THEN to ELSE <<Head(s)>>) \o ReplaceChar(Tail(s), c, to)

\* A plausible slip: the ampersand rule applied last re-escapes the entities.
escapeHtmlAmpLast(s) ==
  ReplaceChar(ReplaceChar(ReplaceChar(ReplaceChar(ReplaceChar(s,
    "<", <<"&", "lt;">>),
    ">", <<"&", "gt;">>),
    "\"", <<"&", "quot;">>),
    "'", <<"&", "#39;">>),
    "&", <<"&", "amp;">>)

\* escapeHtml: five replace passes, the ampersand first.
escapeHtml(s) ==
  ReplaceChar(ReplaceChar(ReplaceChar(ReplaceChar(ReplaceChar(s,
    "&", <<"&", "amp;">>),
    "<", <<"&", "lt;">>),
    ">", <<"&", "gt;">>),
    "\"", <<"&", "quot;">>),
    "'", <<"&", "#39;">>)

(***************************************************************************)
(* escapeHtml called on every short text over the reserved characters, a   *)
(* letter and an entity tail (so "&amp;" itself is an input).              *)
(***************************************************************************)
InitEscape ==
  /\ str \in SeqsUpTo({"&", "<", ">", "\"", "'", "a", "amp;"}, MaxStrLen)
  /\ escaped = None
  /\ markdown = None /\ html = None
  /\ diagramDescription = None /\ diagram = NoDiagram
  /\ quizzes = <<>> /\ quizAttempts = <<>> /\ response = NoResponse
  /\ repositories = <<>> /\ explanations = <<>> /\ r2 = {}
  /\ requests = EmptyBag /\ files = None /\ languages = None

CallEscapeHtml ==
  /\ escaped = None
  /\ escaped' = escapeHtml(str)
  /\ UNCHANGED <<str, markdown, html, diagramDescription, diagram,
                 quizzes, quizAttempts, response,
                 repositories, explanations, r2, requests, files,
                 languages>>

SpecEscape == InitEscape /\ [][CallEscapeHtml]_vars

(***************************************************************************)
(* Diagram selector and generator.                                         *)
(*                                                                         *)
(* A description is a sequence of chunks: a keyword, a keyword in another  *)
(* case, a space, other text, a filler of FillerLen plain characters, or   *)
(* one character outside Latin-1.  CharLen is a chunk's length in UTF-16   *)
(* code units, which is what String.prototype.slice counts.                *)
(***************************************************************************)
FillerLen == 70

\* Characters above U+00FF; "U+201A" is the first character of the
\* bullet and arrow sequences in the analogies and state-tree templates.
NonLatin1 == {"U+201A", "U+2192"}

DescriptionChunks ==
  {"project structure", "Project Structure", "file organization",
   "data flow", "state", "State", "props", "analogies", "concepts",
   " ", "x", "filler", "U+2192"}

CharLen(c) ==
  CASE c \in {"project structure", "Project Structure", "file organization"} -> 17
    [] c \in {"data flow", "analogies"} -> 9
    [] c = "concepts" -> 8
    [] c \in {"state", "State", "props"} -> 5
    [] c = "filler" -> FillerLen
    [] OTHER -> 1

\* String.prototype.toLowerCase.
toLowerCase(s) ==
  [i \in DOMAIN s |->
     CASE s[i] = "Project Structure" -> "project structure"
       [] s[i] = "State" -> "state"
       [] s[i] = "TS" -> "ts"
       [] s[i] = "Go" -> "go"
       [] OTHER -> s[i]]

\* description.slice(0, n); a chunk cut in the middle leaves a plain prefix.
RECURSIVE slice(_, _)
slice(s, n) ==
  IF s = <<>> \/ n <= 0 THEN <<>>
  ELSE IF CharLen(Head(s)) <= n
       THEN <<Head(s)>> \o slice(Tail(s), n - CharLen(Head(s)))
       ELSE <<"(cut)">>

\* btoa: base64 of a string of code units below 256; InvalidCharacterError
\* otherwise.
btoa(s) ==
  IF \E i \in 1..Len(s) : s[i] \in NonLatin1
  THEN [threw |-> TRUE, value |-> <<>>]
  ELSE [threw |-> FALSE, value |-> <<"base64(">> \o s \o <<")">>]

\* The data URI of btoa(svg) that generator `name` returns.
DataUri(name, svg) ==
  LET b == btoa(svg)
  IN  [threw |-> b.threw,
       value |-> IF b.threw THEN <<>>
                 ELSE <<"data:image/svg+xml;base64,">> \o b.value,
       invoked |-> <<name>>]

AnalogyBudget == 70
StructureBudget == 60
StateTreeBudget == 80
GenericBudget == 60
FallbackBudget == 80

\* The static text of each template is one chunk per stretch of Latin-1
\* text, with the characters outside Latin-1 where the source has them.
CodeAnalogiesTemplate(description) ==
  <<"<svg 700x500 Code Analogies & Visual Explanations", "U+201A",
    " Directs passengers to platforms">>
  \o slice(description, AnalogyBudget) \o <<"...", "</svg>">>

ProjectStructureTemplate(description) ==
  <<"<svg 600x500 Project Structure">>
  \o slice(description, StructureBudget) \o <<"...", "</svg>">>

StatePropsTreeTemplate(description) ==
  <<"<svg 800x600 State & Props Flow Tree Structure",
    "- Data flow direction (parent ", "U+201A", " child)">>
  \o slice(description, StateTreeBudget) \o <<"...", "</svg>">>

GenericDiagramTemplate(description) ==
  <<"<svg 600x400 System Diagram">>
  \o slice(description, GenericBudget) \o <<"...", "</svg>">>

FallbackTemplate(description) ==
  <<"<svg 600x400 System Architecture">>
  \o slice(description, FallbackBudget) \o <<"...", "</svg>">>

createCodeAnalogiesSVG(description) ==
  DataUri("createCodeAnalogiesSVG", CodeAnalogiesTemplate(description))

createProjectStructureSVG(description) ==
  DataUri("createProjectStructureSVG", ProjectStructureTemplate(description))

createStatePropsTreeSVG(description) ==
  DataUri("createStatePropsTreeSVG", StatePropsTreeTemplate(description))

createGenericDiagramSVG(description) ==
  DataUri("createGenericDiagramSVG", GenericDiagramTemplate(description))

createFallbackSVG(description) ==
  DataUri("createFallbackSVG", FallbackTemplate(description))

isProjectStructure(description) ==
  \/ Includes(toLowerCase(description), <<"project structure">>)
  \/ Includes(toLowerCase(description), <<"file organization">>)

isDataFlow(description) ==
  \/ Includes(toLowerCase(description), <<"data flow">>)
  \/ Includes(toLowerCase(description), <<"state">>)
  \/ Includes(toLowerCase(description), <<"props">>)

isCodeAnalogies(description) ==
  \/ Includes(toLowerCase(description), <<"analogies">>)
  \/ Includes(toLowerCase(description), <<"concepts">>)

\* A plausible slip: the data-flow test made before the structure test.
createAdvancedSVGDataFlowFirst(description) ==
  IF isDataFlow(description) THEN createStatePropsTreeSVG(description)
  ELSE IF isProjectStructure(description)
       THEN createProjectStructureSVG(description)
  ELSE IF isCodeAnalogies(description)
       THEN createCodeAnalogiesSVG(description)
  ELSE createGenericDiagramSVG(description)

createAdvancedSVG(description) ==
  IF isProjectStructure(description)
  THEN createProjectStructureSVG(description)
  ELSE IF isDataFlow(description) THEN createStatePropsTreeSVG(description)
  ELSE IF isCodeAnalogies(description)
       THEN createCodeAnalogiesSVG(description)
  ELSE createGenericDiagramSVG(description)

\* createAdvancedSVG in a try block, createFallbackSVG in its catch block,
\* in an async function: a throw of the catch block rejects the promise.
generateDiagramImage(description) ==
  LET first == createAdvancedSVG(description)
      second == createFallbackSVG(description)
  IN  IF ~first.threw
      THEN [promise |-> "resolved", value |-> first.value,
            invoked |-> first.invoked]
      ELSE IF ~second.threw
      THEN [promise |-> "resolved", value |-> second.value,
            invoked |-> first.invoked \o second.invoked]
      ELSE [promise |-> "rejected", value |-> <<>>,
            invoked |-> first.invoked \o second.invoked]

MaxDescriptionLen == 3

\* The four descriptions of the specification, chunk by chunk.
SpecDescriptions ==
  {<<"x", " ", "project structure", " ", "x", " ", "file organization">>,
   <<"x", " ", "data flow", " ", "x", " ", "state", "x">>,
   <<"x", " ", "analogies", " ", "x", " ", "concepts">>,
   <<"x", " ", "x", " ", "x">>}

InitDiagram ==
  /\ diagramDescription \in
       SeqsUpTo(DescriptionChunks, MaxDescriptionLen) \cup SpecDescriptions
  /\ diagram = NoDiagram
  /\ str = None /\ escaped = None
  /\ markdown = None /\ html = None
  /\ quizzes = <<>> /\ quizAttempts = <<>> /\ response = NoResponse
  /\ repositories = <<>> /\ explanations = <<>> /\ r2 = {}
  /\ requests = EmptyBag /\ files = None /\ languages = None

CallGenerateDiagramImage ==
  /\ diagram = NoDiagram
  /\ diagram' = generateDiagramImage(diagramDescription)
  /\ UNCHANGED <<str, escaped, markdown, html, diagramDescription,
                 quizzes, quizAttempts, response,
                 repositories, explanations, r2, requests, files,
                 languages>>

SpecDiagram == InitDiagram /\ [][CallGenerateDiagramImage]_vars

(***************************************************************************)
(* The quiz tables and POST /quizzes/:id/attempt.                          *)
(*                                                                         *)
(* A quiz row is [id, questions]; questions is the nullable JSON column:   *)
(* [null, list] with list a sequence of [id, correctAnswer] (the fields    *)
(* the attempt handler reads).  An attempt row is [quizId, answers,        *)
(* score].  A number is [nan, int]: NaN, or the integer int.               *)
(***************************************************************************)
MaxQuestions == 4
MaxAnswers == 4

Null == [null |-> TRUE, list |-> <<>>]
NotNull(list) == [null |-> FALSE, list |-> list]
NaN == [nan |-> TRUE, int |-> 0]
Num(n) == [nan |-> FALSE, int |-> n]

QuestionIdOf(k) == <<"q1", "q2", "q3", "q4", "q5", "q6">>[k]

\* What JSON.parse of the model's reply (or the catch block's one question)
\* leaves in `questions`: null, or k questions with their correct options.
QuestionLists ==
  {Null} \cup
  {NotNull([j \in 1..k |-> [id |-> QuestionIdOf(j), correctAnswer |-> "A"]]) :
     k \in 0..MaxQuestions}

\* The answers of a request: [questionId, answer] entries, in the order of
\* the question ids (an id may repeat), also for an id no question has.
AnswerEntries ==
  {[questionId |-> q, answer |-> o] :
     q \in {QuestionIdOf(j) : j \in 1..MaxQuestions} \cup {"zz"},
     o \in {"A", "a"}}

EntryRank(e) ==
  IF e.questionId = "zz" THEN 0
  ELSE CHOOSE j \in 1..6 : QuestionIdOf(j) = e.questionId

AnswerLists ==
  {as \in SeqsUpTo(AnswerEntries, MaxAnswers) :
     \A i \in 1..(Len(as) - 1) : EntryRank(as[i]) <= EntryRank(as[i + 1])}

\* new Map(answers.map(a => [a.questionId, a.answer])).get(id): the answer
\* of the last entry with that id, undefined without one.
RECURSIVE MapGet(_, _)
MapGet(answers, id) ==
  IF answers = <<>> THEN "undefined"
  ELSE IF answers[Len(answers)].questionId = id
       THEN answers[Len(answers)].answer
       ELSE MapGet(SubSeq(answers, 1, Len(answers) - 1), id)

\* quiz.questions ?? []
OrEmpty(questions) == IF questions.null THEN <<>> ELSE questions.list

\* The loop over quiz.questions ?? [] that counts correctAnswers.
RECURSIVE CountCorrect(_, _)
CountCorrect(questions, answers) ==
  IF questions = <<>> THEN 0
  ELSE (IF MapGet(answers, Head(questions).id) = Head(questions).correctAnswer
        THEN 1 ELSE 0)
       + CountCorrect(Tail(questions), answers)

\* A plausible slip: the quotient truncated instead of rounded.
ScoreOfTruncated(correctAnswers, totalQuestions) ==
  IF totalQuestions = 0 THEN NaN
  ELSE Num((100 * correctAnswers) \div totalQuestions)

\* Math.round((correctAnswers / totalQuestions) * 100): 0 / 0 is NaN and
\* Math.round(NaN) is NaN; Math.round(x) is floor(x + 1/2).
ScoreOf(correctAnswers, totalQuestions) ==
  IF totalQuestions = 0 THEN NaN
  ELSE Num((200 * correctAnswers + totalQuestions) \div (2 * totalQuestions))

InitQuiz ==
  /\ quizzes = <<>> /\ quizAttempts = <<>> /\ response = NoResponse
  /\ str = None /\ escaped = None
  /\ markdown = None /\ html = None
  /\ diagramDescription = None /\ diagram = NoDiagram
  /\ repositories = <<>> /\ explanations = <<>> /\ r2 = {}
  /\ requests = EmptyBag /\ files = None /\ languages = None

\* POST /repositories/:id/quiz, as far as the quiz row it inserts.
CreateQuiz ==
  /\ quizzes = <<>>
  /\ \E questions \in QuestionLists :
       /\ quizzes' = Append(quizzes, [id |-> Len(quizzes) + 1,
                                      questions |-> questions])
       /\ response' = [route |-> "quiz", status |-> 201]
  /\ UNCHANGED <<str, escaped, markdown, html, diagramDescription, diagram,
                 quizAttempts,
                 repositories, explanations, r2, requests, files,
                 languages>>

\* POST /quizzes/:id/attempt for an id that names no quiz.
AttemptNotFound ==
  /\ quizAttempts = <<>> /\ response.status # 404
  /\ \E id \in 1..2 :
       /\ ~ \E i \in 1..Len(quizzes) : quizzes[i].id = id
       /\ response' = [route |-> "attempt", status |-> 404]
  /\ UNCHANGED <<str, escaped, markdown, html, diagramDescription, diagram,
                 quizzes, quizAttempts,
                 repositories, explanations, r2, requests, files,
                 languages>>

\* POST /quizzes/:id/attempt for a stored quiz: the score is computed and
\* the attempt row inserted.  The score column is `integer NOT NULL`; what
\* the driver does with NaN is not the program's to decide: the row is
\* stored with it, or the insert throws and the handler answers 500.
AttemptScored ==
  /\ quizAttempts = <<>>
  /\ \E i \in 1..Len(quizzes), answers \in AnswerLists :
       LET quiz == quizzes[i]
           correctAnswers == CountCorrect(OrEmpty(quiz.questions), answers)
           totalQuestions == Len(OrEmpty(quiz.questions))
           score == ScoreOf(correctAnswers, totalQuestions)
       IN  \/ /\ quizAttempts' = Append(quizAttempts,
                   [quizId |-> quiz.id, answers |-> answers, score |-> score])
              /\ response' = [route |-> "attempt", status |-> 201,
                              score |-> score,
                              correctAnswers |-> correctAnswers,
                              totalQuestions |-> totalQuestions]
           \/ /\ score.nan
              /\ quizAttempts' = quizAttempts
              /\ response' = [route |-> "attempt", status |-> 500]
  /\ UNCHANGED <<str, escaped, markdown, html, diagramDescription, diagram,
                 quizzes,
                 repositories, explanations, r2, requests, files,
                 languages>>

NextQuiz == CreateQuiz \/ AttemptNotFound \/ AttemptScored

SpecQuiz == InitQuiz /\ [][NextQuiz]_vars

(***************************************************************************)
(* markdownToHtml.                                                         *)
(*                                                                         *)
(* Each pattern of the function is an operator that gives, for a position  *)
(* i of the text, where the match that starts at i ends (0 without one),   *)
(* and an operator that gives the replacement of that match; a replace    *)
(* pass hands both to ReplaceAll as functions of the position.  ReplaceAll *)
(* is String.prototype.replace with a global pattern: matches are sought   *)
(* from left to right, each search resuming where the last match ended.    *)
(***************************************************************************)
NL == "\n"
Ind(n) ==
  CASE n = 2 -> "  "
    [] n = 16 -> "                "
    [] n = 20 -> "                    "
    [] n = 24 -> "                        "

\* The whitespace tokens.
Whitespace == {" ", NL, Ind(2), Ind(16), Ind(20), Ind(24)}

\* The digit tokens.
Digits == {"0", "1", "2", "3", "4", "5", "6", "7", "8", "9"}

\* The tokens made of word characters only.
WordTokens == Digits \cup {"a", "b", "c", "d", "q", "f", "t", "u", "x", "js",
                           "http", "https", "Question", "Resource"}

ReplaceAll(s, matchEnd, replacement) ==
  LET starts == {k \in 1..Len(s) : matchEnd[k] # 0}
      rest[k \in 1..(Len(s) + 1)] ==
        LET a == Least({m \in starts : m >= k})
        IN  IF a = 0 THEN Slice(s, k, Len(s) + 1)
            ELSE Slice(s, k, a) \o replacement[a] \o rest[matchEnd[a]]
  IN  rest[1]

\* The first match of a pattern from position i on: [at, end], at = 0
\* without one.
FirstMatch(s, i, matchEnd) ==
  LET k == Least({j \in i..Len(s) : matchEnd[j] # 0})
  IN  IF k = 0 THEN [at |-> 0, end |-> 0] ELSE [at |-> k, end |-> matchEnd[k]]

\* String.prototype.replace with a pattern without the g flag.
ReplaceFirst(s, matchEnd, replacement) ==
  LET m == FirstMatch(s, 1, matchEnd)
  IN  IF m.at = 0 THEN s
      ELSE Slice(s, 1, m.at) \o replacement[m.at] \o Slice(s, m.end, Len(s) + 1)

\* The first position >= i whose token is not in set S (Len(s) + 1 at the
\* end): where a greedy run of S-tokens that starts at i stops.
RunEnd(s, i, S) ==
  LET k == Least({j \in i..Len(s) : s[j] \notin S})
  IN  IF k = 0 THEN (IF i > Len(s) THEN i ELSE Len(s) + 1) ELSE k

\* The first position >= i whose token is in set S (Len(s) + 1 at the end).
RunUntil(s, i, S) ==
  LET k == Least({j \in i..Len(s) : s[j] \in S})
  IN  IF k = 0 THEN (IF i > Len(s) THEN i ELSE Len(s) + 1) ELSE k

\* The backtick character.
Backtick == "backtick"

\* The start of a line.
AtLineStart(s, i) == i = 1 \/ s[i - 1] = NL

\* The end of the line that holds position i: the position of its newline,
\* or Len(s) + 1.
LineEnd(s, i) == RunUntil(s, i, {NL})

Tag(name) == <<"<", name, ">">>
CloseTag(name) == <<"<", "/", name, ">">>
SpanOpen == <<"<", "span class=", "\"", "inline-code", "\"", ">">>
PreOpen == <<"<", "pre class=", "\"", "code-block", "\"", ">">>

(***************************************************************************)
(* The main title at the start of a line with the newlines after it (the   *)
(* first replace of markdownToHtml), removed.                              *)
(***************************************************************************)
MainTitle ==
  <<"#", " ", "(emoji) Comprehensive Code Analysis for Interview Preparation">>

TitleEnd(s, i) ==
  IF AtLineStart(s, i) /\ StartsAt(s, i, MainTitle)
  THEN RunEnd(s, i + Len(MainTitle), {NL})
  ELSE 0

\* The first replace of markdownToHtml.
RemoveTitle(s) ==
  ReplaceAll(s, [k \in 1..Len(s) |-> TitleEnd(s, k)],
             [k \in 1..Len(s) |-> <<>>])

(***************************************************************************)
(* A line  ## N. Title  becomes  </section> <section> <h2>N. Title</h2>    *)
(* (three lines).                                                          *)
(***************************************************************************)
SectionHeaderEnd(s, i) ==
  IF AtLineStart(s, i) /\ StartsAt(s, i, <<"#", "#", " ">>)
  THEN LET d == RunEnd(s, i + 3, Digits)
       IN  IF d > i + 3 /\ StartsAt(s, d, <<".", " ">>)
              /\ LineEnd(s, d + 2) > d + 2
           THEN LineEnd(s, d + 2)
           ELSE 0
  ELSE 0

\* The second replace of markdownToHtml.
ReplaceSectionHeaders(s) ==
  ReplaceAll(s, [k \in 1..Len(s) |-> SectionHeaderEnd(s, k)],
             [k \in 1..Len(s) |->
                CloseTag("section") \o <<NL>> \o Tag("section") \o <<NL>>
                \o Tag("h2") \o Slice(s, k + 3, SectionHeaderEnd(s, k))
                \o CloseTag("h2")])

(***************************************************************************)
(* A line  ### Title  becomes  <h3>Title</h3>.                             *)
(***************************************************************************)
SubsectionHeaderEnd(s, i) ==
  IF AtLineStart(s, i) /\ StartsAt(s, i, <<"#", "#", "#", " ">>)
     /\ LineEnd(s, i + 4) > i + 4
  THEN LineEnd(s, i + 4)
  ELSE 0

\* The third replace of markdownToHtml.
ReplaceSubsectionHeaders(s) ==
  ReplaceAll(s, [k \in 1..Len(s) |-> SubsectionHeaderEnd(s, k)],
             [k \in 1..Len(s) |->
                Tag("h3") \o Slice(s, k + 4, SubsectionHeaderEnd(s, k))
                \o CloseTag("h3")])

(***************************************************************************)
(* Bold: two stars, the shortest text without a newline, two stars         *)
(* become <strong>text</strong>.                                           *)
(***************************************************************************)
\* The end of a bold text that starts at i, or 0: the first two stars
\* after the opening ones close it, when no newline comes before them.
BoldEnd(s, i) ==
  IF StartsAt(s, i, <<"*", "*">>)
  THEN LET c == IndexOf(s, i + 2, <<"*", "*">>)
       IN  IF c # 0 /\ c < RunUntil(s, i + 2, {NL}) THEN c + 2 ELSE 0
  ELSE 0

\* The bold pass.
ReplaceBold(s) ==
  ReplaceAll(s, [k \in 1..Len(s) |-> BoldEnd(s, k)],
             [k \in 1..Len(s) |->
                Tag("strong") \o Slice(s, k + 2, BoldEnd(s, k) - 2)
                \o CloseTag("strong")])

(***************************************************************************)
(* Inline code: a backtick, one or more tokens other than a backtick       *)
(* (newlines included), a backtick.                                        *)
(***************************************************************************)
InlineCodeEnd(s, i) ==
  IF i <= Len(s) /\ s[i] = Backtick
  THEN LET j == RunUntil(s, i + 1, {Backtick})
       IN  IF j > i + 1 /\ j <= Len(s) THEN j + 1 ELSE 0
  ELSE 0

\* The inline code pass: that of the document, which escapes the text of
\* a span, and that of the quiz callback, which does not.
ReplaceInlineCode(s, escaping) ==
  ReplaceAll(s, [k \in 1..Len(s) |-> InlineCodeEnd(s, k)],
             [k \in 1..Len(s) |->
                SpanOpen
                \o (IF escaping
                    THEN escapeHtml(Slice(s, k + 1, InlineCodeEnd(s, k) - 1))
                    ELSE Slice(s, k + 1, InlineCodeEnd(s, k) - 1))
                \o CloseTag("span")])

(***************************************************************************)
(* The quiz pattern (flags g and s): the Question marker with its number,  *)
(* a lazy field, the Expected Answer marker on a new line, a lazy field,   *)
(* the Follow-up marker on a new line, and a lazy field up to a lookahead: *)
(* the next Question or Resource marker on a new line, or the end of the   *)
(* text.  Under the s flag a lazy field before a literal ends at the first *)
(* occurrence of the literal that lets the rest match.                     *)
(***************************************************************************)
QuestionMark == <<"*", "*", "Question", " ">>
FieldMark(name) == <<NL, "*", "*", name, ":", "*", "*", " ">>
NextResource == <<NL, "*", "*", "Resource">>

\* The first position >= i that is the end of the text or where one of
\* the literals of `stops` begins.
LookaheadAt(s, i, stops) ==
  LET k == Least({j \in i..Len(s) : \E lit \in stops : StartsAt(s, j, lit)})
  IN  IF k = 0 THEN (IF i > Len(s) THEN i ELSE Len(s) + 1) ELSE k

\* The parts of the quiz match that starts at i: [end, number, question,
\* expected, followUp] as positions (each field is s[from .. to-1]).
QuizParts(s, i) ==
  IF ~StartsAt(s, i, QuestionMark) THEN [end |-> 0]
  ELSE
    LET d == RunEnd(s, i + 4, Digits)
    IN  IF ~(d > i + 4 /\ StartsAt(s, d, <<":", "*", "*", " ">>))
        THEN [end |-> 0]
        ELSE
          LET p1 == IndexOf(s, d + 4, FieldMark("Expected Answer"))
              p2 == IF p1 = 0 THEN 0
                    ELSE IndexOf(s, p1 + Len(FieldMark("Expected Answer")), FieldMark("Follow-up"))
          IN  IF p1 = 0 \/ p2 = 0 THEN [end |-> 0]
              ELSE [end |-> LookaheadAt(s, p2 + Len(FieldMark("Follow-up")),
                                        {<<NL, "*", "*", "Question">>,
                                         NextResource}),
                    numFrom |-> i + 4, numTo |-> d,
                    qFrom |-> d + 4, qTo |-> p1,
                    aFrom |-> p1 + Len(FieldMark("Expected Answer")), aTo |-> p2,
                    fFrom |-> p2 + Len(FieldMark("Follow-up"))]

\* The quiz callback's treatment of one captured field.
ProcessQuizField(text) == ReplaceInlineCode(ReplaceBold(text), FALSE)

\* The quiz callback on the match with the parts m that ends at e: the
\* template, filled with the number and the three processed fields.
RenderQuiz(s, e, m) ==
  <<NL>> \o Tag("details") \o <<NL, Ind(2)>> \o Tag("summary")
  \o Tag("strong") \o <<"Question", " ">> \o Slice(s, m.numFrom, m.numTo)
  \o <<":">> \o CloseTag("strong") \o <<" ">>
  \o ProcessQuizField(Slice(s, m.qFrom, m.qTo)) \o CloseTag("summary")
  \o <<NL, Ind(2)>> \o Tag("p") \o Tag("strong")
  \o <<"Expected Answer", ":">> \o CloseTag("strong") \o <<" ">>
  \o ProcessQuizField(Slice(s, m.aFrom, m.aTo)) \o CloseTag("p")
  \o <<NL, Ind(2)>> \o Tag("p") \o Tag("strong")
  \o <<"Follow-up", ":">> \o CloseTag("strong") \o <<" ">>
  \o ProcessQuizField(Slice(s, m.fFrom, e)) \o CloseTag("p")
  \o <<NL>> \o CloseTag("details") \o <<NL>>

\* The quiz pass.
ReplaceQuiz(s) ==
  ReplaceAll(s, [k \in 1..Len(s) |-> QuizParts(s, k).end],
             [k \in 1..Len(s) |->
                RenderQuiz(s, QuizParts(s, k).end, QuizParts(s, k))])

(***************************************************************************)
(* The resource pattern (flags g and s): the Resource marker with its      *)
(* number, a lazy title, space dash space, a markdown link [label](url) or *)
(* a bare http(s) URL, space dash space, and a lazy description up to a    *)
(* lookahead: the next Resource marker on a new line, or the end of the    *)
(* text.  The greedy run of non-space characters of a URL is followed      *)
(* (after the closing parenthesis of a link) by a space, so it is the      *)
(* whole run of non-space tokens.                                          *)
(***************************************************************************)
ResourceMark == <<"*", "*", "Resource", " ">>
Dash == <<" ", "-", " ">>
NoMatch == [end |-> 0]

\* The first of two alternatives that matched.
OrElse(first, second) == IF first.end # 0 THEN first ELSE second

\* http:// or https:// at position i: the position after it, or 0.
SchemeEnd(s, i) ==
  IF i <= Len(s) /\ s[i] \in {"http", "https"}
     /\ StartsAt(s, i + 1, <<":", "/", "/">>)
  THEN i + 4 ELSE 0

\* A bare URL at position i, followed by space dash space: the scheme, a
\* run of non-space tokens.
PlainUrl(s, i) ==
  LET u == SchemeEnd(s, i)
      r == IF u = 0 THEN 0 ELSE RunUntil(s, u, Whitespace)
  IN  IF u # 0 /\ r > u /\ StartsAt(s, r, Dash)
      THEN [end |-> r, labelFrom |-> 0, labelTo |-> 0,
            urlFrom |-> i, urlTo |-> r, link |-> FALSE]
      ELSE NoMatch

\* A parenthesised URL at position i, followed by space dash space: the
\* position of the closing parenthesis, or 0.  The run of non-space tokens
\* of the URL gives back its last token, the parenthesis.
LinkTargetClose(s, i) ==
  LET u == IF i <= Len(s) /\ s[i] = "(" THEN SchemeEnd(s, i + 1) ELSE 0
      r == IF u = 0 THEN 0 ELSE RunUntil(s, u, Whitespace)
  IN  IF u # 0 /\ r > u + 1 /\ s[r - 1] = ")" /\ StartsAt(s, r, Dash)
      THEN r - 1 ELSE 0

\* The closing bracket of the label that starts at i, or 0.  In the
\* extraction pattern the label is one or more tokens other than a closing
\* bracket; in the parsing pattern it is lazy: it ends at the first closing
\* bracket that a parenthesised URL follows.
LabelEnd(s, i, lazy) ==
  IF lazy
  THEN Least({b \in i..Len(s) : s[b] = "]" /\ LinkTargetClose(s, b + 1) # 0})
  ELSE Least({b \in {RunUntil(s, i, {"]"})} : b > i /\ b <= Len(s)})

\* The link that starts at i, its label ending at b and its target at c.
LinkParts(i, b, c) ==
  IF c # 0
  THEN [end |-> c + 1, labelFrom |-> i + 1, labelTo |-> b,
        urlFrom |-> b + 2, urlTo |-> c, link |-> TRUE]
  ELSE NoMatch

\* A link at position i whose label ends at b, followed by space dash
\* space.
MarkdownLink(s, i, b) ==
  IF i <= Len(s) /\ s[i] = "[" /\ b # 0
  THEN LinkParts(i, b, LinkTargetClose(s, b + 1))
  ELSE NoMatch

\* The alternation of the extraction pattern, or (lazy) of the parsing one.
UrlAt(s, i, lazy) ==
  OrElse(MarkdownLink(s, i, LabelEnd(s, i + 1, lazy)), PlainUrl(s, i))

\* The lazy title from p on: it ends at the least position where space dash
\* space, a link or URL and space dash space follow.
TitleEndAt(s, p, lazy) ==
  LET k == Least({j \in p..(Len(s) - 2) :
                    StartsAt(s, j, Dash) /\ UrlAt(s, j + 3, lazy).end # 0})
  IN  IF k = 0 THEN NoMatch
      ELSE [titleFrom |-> p, at |-> k] @@ UrlAt(s, k + 3, lazy)

\* The position after the Resource marker and number at position i, or 0.
ResourceHeaderEnd(s, i) ==
  IF StartsAt(s, i, ResourceMark)
  THEN LET d == RunEnd(s, i + 4, Digits)
       IN  IF d > i + 4 /\ StartsAt(s, d, <<":", "*", "*", " ">>)
           THEN d + 4 ELSE 0
  ELSE 0

\* The marker, title and link or URL of an entry that starts at i: [end,
\* titleFrom, at, labelFrom, labelTo, urlFrom, urlTo, link], end = 0
\* without a match.
ResourceParts(s, i, lazy) ==
  LET h == ResourceHeaderEnd(s, i)
  IN  IF h = 0 THEN NoMatch ELSE TitleEndAt(s, h, lazy)

\* The whole entry that starts at i: the lazy description after the URL
\* runs up to the next Resource marker on a new line or the end.
ResourceEnd(s, i) ==
  LET u == ResourceParts(s, i, FALSE).end
  IN  IF u = 0 THEN 0 ELSE LookaheadAt(s, u + 3, {NextResource})

\* String.prototype.match with a global pattern: the matched texts, left to
\* right (null is the empty sequence).
AllMatches(s, matchEnd) ==
  LET starts == {k \in 1..Len(s) : matchEnd[k] # 0}
      rest[k \in 1..(Len(s) + 1)] ==
        LET a == Least({m \in starts : m >= k})
        IN  IF a = 0 THEN <<>>
            ELSE <<Slice(s, a, matchEnd[a])>> \o rest[matchEnd[a]]
  IN  rest[1]

\* html.match(pattern)
ResourceMatches(s) == AllMatches(s, [k \in 1..Len(s) |-> ResourceEnd(s, k)])

\* The removal of the resource entries.
RemoveResources(s) ==
  ReplaceAll(s, [k \in 1..Len(s) |-> ResourceEnd(s, k)],
             [k \in 1..Len(s) |-> <<>>])

(***************************************************************************)
(* The callback of resourceMatches.map: the entry is parsed again (the     *)
(* same pattern with capture groups and a lazy link label, flag s, sought  *)
(* from the left, up to the end of the entry) and rendered as a list item  *)
(* title - url.                                                            *)
(***************************************************************************)
\* match.match(pattern): the leftmost of the matches that start at the
\* positions of m.
ParseResource(m) ==
  LET parts == [j \in 1..Len(m) |-> ResourceParts(m, j, TRUE)]
      k == Least({j \in 1..Len(m) : parts[j].end # 0})
  IN  IF k = 0 THEN NoMatch ELSE parts[k]

\* A plausible slip: the plain title preferred to the label of the link.
RenderResourcePlainTitle(m, r) ==
  IF r.end = 0 THEN <<>>
  ELSE <<Ind(20)>> \o Tag("li") \o Slice(m, r.titleFrom, r.at)
       \o Dash \o Slice(m, r.urlFrom, r.urlTo) \o CloseTag("li")

\* The list item of the parsed entry r: the label of the link, else the
\* plain title, else the word Resource; then the URL.
RenderResource(m, r) ==
  IF r.end = 0 THEN <<>>
  ELSE LET title == IF r.link /\ r.labelTo > r.labelFrom
                    THEN Slice(m, r.labelFrom, r.labelTo)
                    ELSE Slice(m, r.titleFrom, r.at)
       IN  <<Ind(20)>> \o Tag("li")
           \o (IF title # <<>> THEN title ELSE <<"Resource">>)
           \o Dash \o Slice(m, r.urlFrom, r.urlTo) \o CloseTag("li")

\* Array.prototype.join with a newline.
RECURSIVE Join(_)
Join(items) ==
  IF items = <<>> THEN <<>>
  ELSE IF Len(items) = 1 THEN items[1]
  ELSE items[1] \o <<NL>> \o Join(Tail(items))

ResourcesList(matches) ==
  Join([k \in 1..Len(matches) |->
          RenderResource(matches[k], ParseResource(matches[k]))])

SupplementalTitle == "SUPPLEMENTAL LEARNING RESOURCES"

\* resourcesSection, empty when the pattern matched nowhere.
ResourcesSection(matches) ==
  IF matches = <<>> THEN <<>>
  ELSE <<NL>> \o CloseTag("section") \o <<NL>> \o Tag("section") \o <<NL>>
       \o Tag("h2") \o <<"8", ".", " ", SupplementalTitle>> \o CloseTag("h2")
       \o <<NL>> \o Tag("ul") \o <<NL>> \o ResourcesList(matches) \o <<NL>>
       \o CloseTag("ul") \o <<NL>> \o CloseTag("section")

(***************************************************************************)
(* Fenced code: three backticks, the shortest text, three backticks.  Its  *)
(* text is stripped of every fence with the word characters and the one    *)
(* newline after it, and of a fence at its end, then escaped.              *)
(***************************************************************************)
Fence == <<Backtick, Backtick, Backtick>>

FencedEnd(s, i) ==
  IF StartsAt(s, i, Fence)
  THEN LET j == IndexOf(s, i + 3, Fence) IN IF j = 0 THEN 0 ELSE j + 3
  ELSE 0

FenceTagEnd(s, i) ==
  IF StartsAt(s, i, Fence)
  THEN LET w == RunEnd(s, i + 3, WordTokens)
       IN  IF w <= Len(s) /\ s[w] = NL THEN w + 1 ELSE w
  ELSE 0

TrailingFenceEnd(s, i) ==
  IF StartsAt(s, i, Fence) /\ i + 3 = Len(s) + 1 THEN i + 3 ELSE 0

\* The two replaces of the fenced code callback: every fence with its
\* language tag and newline removed, then a fence at the end.
StripFences(match) ==
  LET code == ReplaceAll(match,
                         [k \in 1..Len(match) |-> FenceTagEnd(match, k)],
                         [k \in 1..Len(match) |-> <<>>])
  IN  ReplaceAll(code, [k \in 1..Len(code) |-> TrailingFenceEnd(code, k)],
                 [k \in 1..Len(code) |-> <<>>])

\* The fenced code pass.
ReplaceFenced(s) ==
  ReplaceAll(s, [k \in 1..Len(s) |-> FencedEnd(s, k)],
             [k \in 1..Len(s) |->
                PreOpen
                \o escapeHtml(StripFences(Slice(s, k, FencedEnd(s, k))))
                \o CloseTag("pre")])

(***************************************************************************)
(* The line pass.                                                          *)
(***************************************************************************)
\* String.prototype.split at newlines.
RECURSIVE Split(_)
Split(s) ==
  LET e == RunUntil(s, 1, {NL})
  IN  IF e > Len(s) THEN <<s>>
      ELSE <<Slice(s, 1, e)>> \o Split(Slice(s, e + 1, Len(s) + 1))

\* A plausible slip: the line not trimmed.
TrimNothing(s) == s

\* String.prototype.trim
RECURSIVE TrimEnd(_)
TrimEnd(s) ==
  IF s # <<>> /\ s[Len(s)] \in Whitespace
  THEN TrimEnd(SubSeq(s, 1, Len(s) - 1)) ELSE s

Trim(s) == TrimEnd(Slice(s, RunEnd(s, 1, Whitespace), Len(s) + 1))

\* The line starts with < and passes one of the eight includes tests.
IsMarkupLine(line) ==
  /\ StartsAt(line, 1, <<"<">>)
  /\ \/ Includes(line, <<"h2", ">">>)
     \/ Includes(line, <<"h3", ">">>)
     \/ Includes(line, <<"details", ">">>)
     \/ Includes(line, <<"summary", ">">>)
     \/ Includes(line, <<"pre", ">">>)
     \/ Includes(line, <<"/", "details", ">">>)
     \/ Includes(line, <<"/", "summary", ">">>)
     \/ Includes(line, <<"section", ">">>)

\* Digits, a dot and a space at the start: the position after them, or 0.
NumberedMarkerEnd(line) ==
  LET d == RunEnd(line, 1, Digits)
  IN  IF d > 1 /\ d + 1 <= Len(line) /\ line[d] = "."
         /\ line[d + 1] \in Whitespace
      THEN d + 2 ELSE 0

ListItem(content) ==
  <<Ind(20)>> \o Tag("li") \o <<NL, Ind(24)>> \o Tag("p") \o content
  \o CloseTag("p") \o <<NL, Ind(20)>> \o CloseTag("li")

\* A plausible slip: the kind of the open list not compared, so that an
\* item of the other kind joins the list that is open.
OpenListAnyKind(st, kind) ==
  IF ~st.inList THEN <<Tag(kind)>> ELSE <<>>

\* The lines pushed to open the list of a kind (ul or ol) when the state
\* is [inList, listType].
OpenList(st, kind) ==
  IF ~st.inList \/ st.listType # kind
  THEN (IF st.inList THEN <<CloseTag(st.listType)>> ELSE <<>>)
       \o <<Tag(kind)>>
  ELSE <<>>

\* A plausible slip: an open list never closed.
CloseListNever(st) == <<>>

\* The line pushed to close the list that is open.
CloseList(st) == IF st.inList THEN <<CloseTag(st.listType)>> ELSE <<>>

\* One iteration of the loop: the lines pushed and the state after it.
LineStep(st, raw) ==
  LET line == Trim(raw)
  IN  IF line = <<>>
      THEN [out |-> CloseList(st), inList |-> FALSE, listType |-> st.listType]
      ELSE IF IsMarkupLine(line)
      THEN [out |-> CloseList(st) \o <<line>>,
            inList |-> FALSE, listType |-> st.listType]
      ELSE IF StartsAt(line, 1, <<"-", " ">>)
      THEN [out |-> OpenList(st, "ul")
                    \o <<ListItem(Trim(Slice(line, 3, Len(line) + 1)))>>,
            inList |-> TRUE, listType |-> "ul"]
      ELSE IF NumberedMarkerEnd(line) # 0
      THEN [out |-> OpenList(st, "ol")
                    \o <<ListItem(Trim(Slice(line, NumberedMarkerEnd(line),
                                             Len(line) + 1)))>>,
            inList |-> TRUE, listType |-> "ol"]
      ELSE [out |-> CloseList(st)
                    \o <<IF line[1] # "<"
                         THEN <<Ind(16)>> \o Tag("p") \o line \o CloseTag("p")
                         ELSE line>>,
            inList |-> FALSE, listType |-> st.listType]

\* The loop over the lines and the closing of a list left open.
RECURSIVE LinePass(_, _, _, _)
LinePass(lines, k, st, processedLines) ==
  IF k > Len(lines) THEN processedLines \o CloseList(st)
  ELSE LET r == LineStep(st, lines[k])
       IN  LinePass(lines, k + 1,
                    [inList |-> r.inList, listType |-> r.listType],
                    processedLines \o r.out)

(***************************************************************************)
(* The reinsertion of the resources and the section 2 post-processing.     *)
(***************************************************************************)
H2EightEnd(s, i) ==
  IF StartsAt(s, i, Tag("h2"))
  THEN LET a == RunEnd(s, i + 3, Whitespace)
           b == RunEnd(s, a + 2, Whitespace)
           c == RunEnd(s, b + 1, Whitespace)
       IN  IF StartsAt(s, a, <<"8", ".">>) /\ b <= Len(s)
              /\ s[b] \in {SupplementalTitle, "Supplemental Learning Resources"}
              /\ StartsAt(s, c, CloseTag("h2"))
           THEN c + 4 ELSE 0
  ELSE 0

\* The first section 8 heading: [at, end], at = 0 without one.
FirstH2Eight(s) == FirstMatch(s, 1, [k \in 1..Len(s) |-> H2EightEnd(s, k)])

\* The section 8 heading, a newline and an empty paragraph: the heading.
EmptyParagraphEnd(s, i) ==
  LET h == H2EightEnd(s, i)
  IN  IF h # 0 /\ h <= Len(s) /\ s[h] = NL
      THEN LET a == RunEnd(s, h + 1, Whitespace)
               b == RunEnd(s, a + 3, Whitespace)
           IN  IF StartsAt(s, a, Tag("p")) /\ StartsAt(s, b, CloseTag("p"))
               THEN b + 4 ELSE 0
      ELSE 0

\* The removal of the first empty paragraph under a section 8 heading.
RemoveEmptyParagraph(s) ==
  ReplaceFirst(s, [k \in 1..Len(s) |-> EmptyParagraphEnd(s, k)],
               [k \in 1..Len(s) |-> Slice(s, k, H2EightEnd(s, k))])

\* The element that opens with `open` at position i, up to its first
\* closing tag: the position after it, or 0.
ElementEnd(s, i, open, name) ==
  IF StartsAt(s, i, open)
  THEN LET j == IndexOf(s, i + Len(open), CloseTag(name))
       IN  IF j = 0 THEN 0 ELSE j + 4
  ELSE 0

\* The first replace of the section 2 callback: an inline-code span
\* becomes a code element holding escapeHtml of the span's text.
SpansToCode(s) ==
  ReplaceAll(s, [k \in 1..Len(s) |-> ElementEnd(s, k, SpanOpen, "span")],
             [k \in 1..Len(s) |->
                Tag("code")
                \o escapeHtml(Slice(s, k + Len(SpanOpen), ElementEnd(s, k, SpanOpen, "span") - 4))
                \o CloseTag("code")])

\* The second replace of the section 2 callback: a code-block pre becomes
\* a pre holding a code element with the same text.
PresToCode(s) ==
  ReplaceAll(s, [k \in 1..Len(s) |-> ElementEnd(s, k, PreOpen, "pre")],
             [k \in 1..Len(s) |->
                Tag("pre") \o Tag("code")
                \o Slice(s, k + Len(PreOpen), ElementEnd(s, k, PreOpen, "pre") - 4)
                \o CloseTag("code") \o CloseTag("pre")])

\* The heading of section 2 (digit 2, a dot, one or more characters other
\* than <, spaces among them) at position i: the position after it, or 0.
H2TwoEnd(s, i) ==
  IF StartsAt(s, i, Tag("h2"))
  THEN LET a == RunEnd(s, i + 3, Whitespace)
           c == RunUntil(s, a + 2, {"<"})
       IN  IF StartsAt(s, a, <<"2", ".">>) /\ c > a + 2
              /\ StartsAt(s, c, CloseTag("h2"))
           THEN c + 4 ELSE 0
  ELSE 0

\* The section 2 pattern at position i: an opening section tag, lazily up
\* to the heading of section 2, the body lazily up to a closing section
\* tag.  [end, bodyFrom, bodyTo], end = 0 without a match.
SectionTwoParts(s, i) ==
  LET h == IF StartsAt(s, i, Tag("section"))
           THEN FirstMatch(s, i + 3, [k \in 1..Len(s) |-> H2TwoEnd(s, k)])
           ELSE [at |-> 0, end |-> 0]
      t == IF h.at = 0 THEN 0 ELSE IndexOf(s, h.end, CloseTag("section"))
  IN  IF h.at = 0 \/ t = 0 THEN [end |-> 0]
      ELSE [end |-> t + 4, bodyFrom |-> h.end, bodyTo |-> t]

\* The section 2 callback on the match with the parts m: head, newBody
\* and tail.
RenderSectionTwo(s, i, m) ==
  Slice(s, i, m.bodyFrom)
  \o PresToCode(SpansToCode(Slice(s, m.bodyFrom, m.bodyTo)))
  \o CloseTag("section")

\* The section 2 post-processing: the first match only.
PostProcessSectionTwo(s) ==
  ReplaceFirst(s, [k \in 1..Len(s) |-> SectionTwoParts(s, k).end],
               [k \in 1..Len(s) |->
                  RenderSectionTwo(s, k, SectionTwoParts(s, k))])

\* The list placed after the first section 8 heading.
InjectList(s, list) ==
  LET m == FirstH2Eight(s)
  IN  Slice(s, 1, m.end) \o <<NL>> \o Tag("ul") \o <<NL>> \o list \o <<NL>>
      \o CloseTag("ul") \o Slice(s, m.end, Len(s) + 1)

\* The text after the quiz and resource passes, the list of resource
\* matches being taken from the text between the two.
AfterQuiz(md) ==
  ReplaceQuiz(ReplaceSubsectionHeaders(ReplaceSectionHeaders(RemoveTitle(md))))

\* The body assembled by the line pass, wrapped in its opening section.
Assembled(text) ==
  LET inline ==
        ReplaceFenced(ReplaceInlineCode(ReplaceBold(text), TRUE))
      processedLines == LinePass(Split(inline), 1,
                                 [inList |-> FALSE, listType |-> ""], <<>>)
      result == Join(processedLines)
  IN  Tag("section") \o <<NL>>
      \o (IF StartsAt(result, 1, CloseTag("section") \o <<NL>>)
          THEN Slice(result, 6, Len(result) + 1) ELSE result)

\* A plausible slip: no return after the injection, so that the section
\* with the list is appended as well.
FinishWithoutReturn(result, matches) ==
  PostProcessSectionTwo(
    IF matches # <<>> /\ FirstH2Eight(result).at # 0
    THEN InjectList(RemoveEmptyParagraph(result), ResourcesList(matches))
    ELSE result)
  \o ResourcesSection(matches)

\* The end of markdownToHtml: the list injected under an existing section 8
\* heading and the result returned at once; otherwise section 2
\* post-processed and resourcesSection appended.
Finish(result, matches) ==
  IF matches # <<>> /\ FirstH2Eight(result).at # 0
  THEN InjectList(RemoveEmptyParagraph(result), ResourcesList(matches))
  ELSE PostProcessSectionTwo(result) \o ResourcesSection(matches)

markdownToHtml(md) ==
  LET text == AfterQuiz(md)
      resourceMatches == ResourceMatches(text)
  IN  Finish(Assembled(IF resourceMatches = <<>> THEN text
                       ELSE RemoveResources(text)),
             resourceMatches)

(***************************************************************************)
(* The documents markdownToHtml is called on.  A document is a sequence of *)
(* blocks joined by newlines; the quiz blocks and the resource entries are *)
(* numbered in their order.  Five families: documents of list, paragraph   *)
(* and blank lines; documents of quiz blocks, resource entries, a section  *)
(* 8 heading and paragraphs in any order; the report layout (title,        *)
(* section 2, section 3, quiz, section 8 heading, resources), each part    *)
(* present or not; documents of plain and padded lines, lines of markup,   *)
(* code spans in a paragraph, a list item and a quiz block, fenced code    *)
(* and a section heading in any order; and documents of resource entries   *)
(* (well formed, without a URL, with markup or a dash in the title),      *)
(* paragraphs and a code span with bold markers in any order.              *)
(***************************************************************************)
MaxLines == 4
MaxBlocks == 3

CodeSpan == <<Backtick, "<", "b", ">", Backtick>>

NumberToken(k) == <<"1", "2", "3", "4", "5", "6", "7", "8", "9">>[k]

Block(kind, n) ==
  CASE kind = "bullet" -> <<"-", " ", "a">>
    [] kind = "numbered" -> <<"1", ".", " ", "b">>
    [] kind = "paragraph" -> <<"x">>
    [] kind = "blank" -> <<>>
    [] kind = "subsection" -> <<"#", "#", "#", " ", "t">>
    [] kind = "title" -> MainTitle \o <<NL>>
    [] kind = "section2" ->
         <<"#", "#", " ", "2", ".", " ", "t", NL, "a", " ">> \o CodeSpan
    [] kind = "section3" ->
         <<"#", "#", " ", "3", ".", " ", "t", NL, "a", " ">> \o CodeSpan
    [] kind = "section8" ->
         <<"#", "#", " ", "8", ".", " ", SupplementalTitle>>
    [] kind = "quiz" ->
         QuestionMark \o <<NumberToken(n), ":", "*", "*", " ", "q">>
         \o FieldMark("Expected Answer") \o <<"a">> \o FieldMark("Follow-up") \o <<"f">>
    [] kind = "resource" ->
         ResourceMark \o <<NumberToken(n), ":", "*", "*", " ", "t">> \o Dash
         \o <<"http", ":", "/", "/", "u">> \o Dash \o <<"d">>
    [] kind = "resourceLink" ->
         ResourceMark \o <<NumberToken(n), ":", "*", "*", " ", "t">> \o Dash
         \o <<"[", "c", "]", "(", "https", ":", "/", "/", "u", ")">>
         \o Dash \o <<"d">>
    [] kind = "padded" -> <<" ", "y", " ", "y", Ind(2)>>
    [] kind = "script" ->
         Tag("script") \o <<"z">> \o CloseTag("script")
    [] kind = "markupText" -> <<"x", " ">> \o Tag("b")
    [] kind = "codeLine" -> <<"a", " ">> \o CodeSpan
    [] kind = "bulletCode" -> <<"-", " ">> \o CodeSpan
    [] kind = "quizCode" ->
         QuestionMark \o <<NumberToken(n), ":", "*", "*", " ">> \o CodeSpan
         \o FieldMark("Expected Answer") \o <<"a">> \o FieldMark("Follow-up") \o <<"f">>
    [] kind = "fenced" -> Fence \o <<"js", NL, "c", "<", NL>> \o Fence
    [] kind = "section1" -> <<"#", "#", " ", "1", ".", " ", "t">>
    [] kind = "resourceBad" ->
         ResourceMark \o <<NumberToken(n), ":", "*", "*", " ", "m">> \o Dash
         \o <<"e">>
    [] kind = "resourceMarkup" ->
         ResourceMark \o <<NumberToken(n), ":", "*", "*", " ">> \o Tag("b")
         \o Dash \o <<"http", ":", "/", "/", "u">> \o Dash \o <<"d">>
    [] kind = "resourceDashed" ->
         ResourceMark \o <<NumberToken(n), ":", "*", "*", " ", "t">> \o Dash
         \o <<"s">> \o Dash \o <<"http", ":", "/", "/", "u">> \o Dash
         \o <<"d">>
    [] kind = "codeBold" ->
         <<"a", " ", Backtick, "*", "*", "b", "*", "*", Backtick>>
    [] kind = "section4" ->
         <<"#", "#", " ", "4", ".", " ", "PROJECT STRUCTURE">>
    [] kind = "section5" ->
         <<"#", "#", " ", "5", ".", " ", "DATA FLOW ARCHITECTURE">>
    [] kind = "section6" ->
         <<"#", "#", " ", "6", ".", " ", "CODE ANALOGIES",
           " & EXPLANATIONS">>
    [] kind = "section6short" ->
         <<"#", "#", " ", "6", ".", " ", "CODE ANALOGIES">>
    [] kind = "section7" ->
         <<"#", "#", " ", "7", ".", " ", "LEARNING QUIZ">>

QuizKinds == {"quiz", "quizCode"}
\* How many of kinds[1..k] are in set K.
CountKinds(kinds, k, K) == Cardinality({j \in 1..k : kinds[j] \in K})

Document(kinds) ==
  Join([k \in 1..Len(kinds) |->
          Block(kinds[k],
                IF kinds[k] \in QuizKinds THEN CountKinds(kinds, k, QuizKinds)
                ELSE CountKinds(kinds, k, {"resource", "resourceLink",
                                           "resourceBad", "resourceMarkup",
                                           "resourceDashed"}))])

DocumentKinds ==
  SeqsUpTo({"bullet", "numbered", "paragraph", "blank", "subsection"},
           MaxLines)
  \cup SeqsUpTo({"quiz", "resource", "resourceLink", "section8", "paragraph"},
               MaxBlocks)
  \cup {SelectSeq(<<"title", "section2", "section3", "quiz", "section8",
                    "resource">>, LAMBDA kind : kind \in present) :
          present \in SUBSET {"title", "section2", "section3", "quiz",
                              "section8", "resource"}}
  \cup SeqsUpTo({"paragraph", "padded", "blank", "script", "markupText",
                 "codeLine", "bulletCode", "quizCode", "fenced", "section1"},
                MaxBlocks)
  \cup SeqsUpTo({"resource", "resourceLink", "resourceBad", "resourceMarkup",
                 "resourceDashed", "codeBold", "paragraph"}, MaxBlocks)

InitMarkdown ==
  /\ markdown \in {Document(kinds) : kinds \in DocumentKinds}
  /\ html = None
  /\ str = None /\ escaped = None
  /\ diagramDescription = None /\ diagram = NoDiagram
  /\ quizzes = <<>> /\ quizAttempts = <<>> /\ response = NoResponse
  /\ repositories = <<>> /\ explanations = <<>> /\ r2 = {}
  /\ requests = EmptyBag /\ files = None /\ languages = None

CallMarkdownToHtml ==
  /\ html = None
  /\ html' = markdownToHtml(markdown)
  /\ UNCHANGED <<str, escaped, markdown, diagramDescription, diagram,
                 quizzes, quizAttempts, response,
                 repositories, explanations, r2, requests, files,
                 languages>>

SpecMarkdown == InitMarkdown /\ [][CallMarkdownToHtml]_vars

(***************************************************************************)
(* detectLanguages.                                                        *)
(*                                                                         *)
(* A file path is the sequence of the parts f.split(".") gives: "a.ts" is  *)
(* <<"a", "ts">>, "go" is <<"go">>, "a." is <<"a", "">>.                   *)
(***************************************************************************)
MaxFiles == 3

langMap ==
  [js |-> "JavaScript", ts |-> "TypeScript", py |-> "Python", java |-> "Java",
   cpp |-> "C++", c |-> "C", cs |-> "C#", php |-> "PHP", rb |-> "Ruby",
   go |-> "Go", rs |-> "Rust", kt |-> "Kotlin", swift |-> "Swift"]

\* langMap[ext] for ext = f.split(".").pop()?.toLowerCase(), the last part
\* of the name and the whole name when it holds no dot: the value of an
\* own key of the object literal, a member of Object.prototype for its
\* name (a truthy value that is no string), undefined otherwise and for
\* the empty extension.
LanguageOf(f) ==
  LET ext == toLowerCase(<<f[Len(f)]>>)[1]
  IN  IF ext \in DOMAIN langMap THEN langMap[ext]
      ELSE IF ext \in {"constructor", "toString"} THEN "[object]"
      ELSE "undefined"

\* [...new Set(...)] of the truthy values, in insertion order.
detectLanguages(fs) ==
  LET kept[i \in 0..Len(fs)] ==
        IF i = 0 THEN <<>>
        ELSE IF \/ LanguageOf(fs[i]) = "undefined"
                \/ \E j \in 1..(i - 1) :
                     LanguageOf(fs[j])
                       = LanguageOf(fs[i])
             THEN kept[i - 1]
             ELSE Append(kept[i - 1], LanguageOf(fs[i]))
  IN  kept[Len(fs)]

\* The paths of an ingested tree.
FileNames ==
  {<<"a", "ts">>, <<"b", "TS">>, <<"c", "py">>, <<"d", "min", "js">>,
   <<"go">>, <<"Makefile">>, <<"README", "md">>, <<"e", "">>,
   <<"f", "constructor">>}

InitLanguages ==
  /\ files \in SeqsUpTo(FileNames, MaxFiles)
  /\ languages = None
  /\ str = None /\ escaped = None
  /\ markdown = None /\ html = None
  /\ diagramDescription = None /\ diagram = NoDiagram
  /\ quizzes = <<>> /\ quizAttempts = <<>> /\ response = NoResponse
  /\ repositories = <<>> /\ explanations = <<>> /\ r2 = {}
  /\ requests = EmptyBag

CallDetectLanguages ==
  /\ languages = None
  /\ languages' = detectLanguages(files)
  /\ UNCHANGED <<str, escaped, markdown, html, diagramDescription, diagram,
                 quizzes, quizAttempts, response, repositories,
                 explanations, r2, requests, files>>

SpecLanguages == InitLanguages /\ [][CallDetectLanguages]_vars

(***************************************************************************)
(* The REST handlers and the MCP tools over the database and the bucket.   *)
(*                                                                         *)
(* A repository row is [id, sourceType, sourceUrl, fileCount, languages,   *)
(* r2Path] with sourceUrl "" for the null of an upload; an explanation row *)
(* is [id, repositoryId, filePath, explanationType, content]; a quiz row   *)
(* is [id, repositoryId, explanationId, questions] with explanationId 0    *)
(* for null; an attempt row is [quizId, answers, score].  The ids of       *)
(* crypto.randomUUID() are the row numbers.  An object of the bucket is    *)
(* its key <<r2Path, file path>>.  A GitHub ingestion is in `requests`     *)
(* from its lookup of the URL until it has answered: [handler, url, pc,    *)
(* repositoryId] with pc "fetch" before fetchGitHubRepo and "analyze"      *)
(* before the analysis of the MCP tool.                                    *)
(***************************************************************************)
MaxRepositories == 2
MaxExplanations == 3
MaxQuizzes == 1
MaxAttempts == 1
MaxInFlight == 2

\* The blobs of the tree that fetchGitHubRepo collects for a URL.
fetchGitHubRepo(url) == << <<"src/auth", "ts">>, <<"go">> >>

\* The two files of the mock extraction.
extractZipFiles == << <<"README", "md">>, <<"src/index", "ts">> >>

\* The text of a reply of the language model.
Reply == Document(<<"subsection", "bullet">>)

\* The catch block's one question.
FallbackQuestions ==
  NotNull(<<[id |-> "1", correctAnswer |-> "Authentication"]>>)

\* The rows of a table with a column equal to a value.
Where(rows, column, value) ==
  SelectSeq(rows, LAMBDA row : row[column] = value)

\* PRAGMA foreign_keys = off: every reference is accepted.
ForeignKeyOff(rows, id) == TRUE

\* FOREIGN KEY ... REFERENCES rows(id), which D1 enforces on insert.
ForeignKey(rows, id) == Where(rows, "id", id) # <<>>

\* The values of an insert into repositories, after detectLanguages.
NewRepository(sourceType, sourceUrl, fs) ==
  [id |-> Len(repositories) + 1, sourceType |-> sourceType,
   sourceUrl |-> sourceUrl, fileCount |-> Len(fs),
   languages |-> detectLanguages(fs), r2Path |-> Len(repositories) + 1]

\* The values of an insert into explanations.
\* diagramUrl is a sequence of tokens, empty for NULL.
NewExplanation(n, repositoryId, filePath, explanationType, content, diagramUrl) ==
  [id |-> Len(explanations) + n, repositoryId |-> repositoryId,
   filePath |-> filePath, explanationType |-> explanationType,
   content |-> content, diagramUrl |-> diagramUrl]

InitApi ==
  /\ repositories = <<>> /\ explanations = <<>> /\ r2 = {}
  /\ quizzes = <<>> /\ quizAttempts = <<>> /\ response = NoResponse
  /\ requests = EmptyBag
  /\ str = None /\ escaped = None
  /\ markdown = None /\ html = None
  /\ diagramDescription = None /\ diagram = NoDiagram
  /\ files = None /\ languages = None

\* POST /repositories/upload with a file.
PostUpload ==
  /\ Len(repositories) < MaxRepositories
  /\ r2' = r2 \cup {<<Len(repositories) + 1, extractZipFiles[i]>> :
                      i \in DOMAIN extractZipFiles}
  /\ repositories' =
       Append(repositories, NewRepository("upload", "", extractZipFiles))
  /\ response' = [route |-> "POST /repositories/upload", status |-> 201]
  /\ UNCHANGED <<str, escaped, markdown, html, diagramDescription, diagram,
                 quizzes, quizAttempts, explanations, requests, files,
                 languages>>

\* POST /repositories/github and analyze_repository up to the await of
\* the select by sourceUrl: a REST request that finds a row answers with
\* it, the tool goes on to its analysis, and without a row both go on to
\* fetchGitHubRepo.
GithubLookup ==
  /\ BagCardinality(requests) < MaxInFlight
  /\ \E handler \in {"rest", "mcp"}, url \in {"https://github.com/a/x"} :
       LET existingRepo == Where(repositories, "sourceUrl", url)
       IN  IF existingRepo = <<>>
           THEN /\ requests' = requests (+) SetToBag({[handler |-> handler,
                     url |-> url, pc |-> "fetch", repositoryId |-> 0]})
                /\ UNCHANGED response
           ELSE IF handler = "rest"
           THEN /\ response' = [route |-> "POST /repositories/github",
                                status |-> 200,
                                repository |-> existingRepo[1].id,
                                message |-> "Repository already exists"]
                /\ UNCHANGED requests
           ELSE /\ requests' = requests (+) SetToBag({[handler |-> handler,
                     url |-> url, pc |-> "analyze",
                     repositoryId |-> existingRepo[1].id]})
                /\ UNCHANGED response
  /\ UNCHANGED <<str, escaped, markdown, html, diagramDescription, diagram,
                 quizzes, quizAttempts, repositories, explanations, r2,
                 files, languages>>

\* The rest of an ingestion: fetchGitHubRepo throws and the catch block
\* answers (the tool's answer has this status in isError), or the files are put into the bucket and the row inserted;
\* the REST handler then answers 201 and the tool goes on to its analysis.
GithubStore ==
  \E q \in BagToSet(requests) :
    /\ q.pc = "fetch"
    /\ \/ /\ requests' = requests (-) SetToBag({q})
          /\ response' = [route |-> "POST /repositories/github",
                          status |-> 500]
          /\ UNCHANGED <<repositories, r2>>
       \/ /\ Len(repositories) < MaxRepositories
          /\ r2' = r2 \cup {<<Len(repositories) + 1, fetchGitHubRepo(q.url)[i]>> :
                              i \in DOMAIN fetchGitHubRepo(q.url)}
          /\ repositories' =
               Append(repositories,
                      NewRepository("github", q.url, fetchGitHubRepo(q.url)))
          /\ IF q.handler = "rest"
             THEN /\ requests' = requests (-) SetToBag({q})
                  /\ response' = [route |-> "POST /repositories/github",
                                  status |-> 201]
             ELSE /\ requests' = (requests (-) SetToBag({q})) (+)
                       SetToBag({[q EXCEPT !.pc = "analyze",
                                   !.repositoryId = Len(repositories) + 1]})
                  /\ UNCHANGED response
    /\ UNCHANGED <<str, escaped, markdown, html, diagramDescription, diagram,
                   quizzes, quizAttempts, explanations, files, languages>>

\* The analysis of analyze_repository, for a new and for an existing
\* repository alike: the comprehensive explanation of the model's reply
\* and the two diagram explanations are inserted.
AnalyzeRepository ==
  \E q \in BagToSet(requests) :
    /\ q.pc = "analyze"
    /\ requests' = requests (-) SetToBag({q})
    /\ Len(explanations) + 3 <= MaxExplanations
    /\ explanations' = explanations \o
         <<NewExplanation(1, q.repositoryId, "comprehensive-analysis",
                          "comprehensive", Reply, <<"data:image/svg+xml;base64,", "P">>),
           NewExplanation(2, q.repositoryId, "data-flow-diagram",
                          "diagram", <<"Tree-structure diagram">>,
                          <<"data:image/svg+xml;base64,", "F">>),
           NewExplanation(3, q.repositoryId, "code-analogies-diagram",
                          "diagram", <<"Visual diagrams">>,
                          <<"data:image/svg+xml;base64,", "A">>)>>
    /\ response' = [route |-> "analyze_repository", isError |-> FALSE]
    /\ UNCHANGED <<str, escaped, markdown, html, diagramDescription, diagram,
                   quizzes, quizAttempts, repositories, r2, files, languages>>

\* What POST /repositories/:id/explain answers, and what explain_code
\* (tool) answers in its place; aiCalls counts the handler's calls of
\* generateContent.
ExplainAnswer(tool, status, text, aiCalls) ==
  IF tool
  THEN [route |-> "explain_code", isError |-> status = 404, text |-> text,
        aiCalls |-> aiCalls]
  ELSE [route |-> "POST /repositories/:id/explain", status |-> status,
        error |-> text, aiCalls |-> aiCalls]

\* A plausible slip: no check of the file, the model being asked about an
\* empty text.
ExplainCodeWithoutFileCheck ==
  /\ \E tool \in BOOLEAN, id \in 1..(MaxRepositories + 1),
        file_path \in {<<"src/auth", "ts">>, <<"missing">>} :
       IF Where(repositories, "id", id) = <<>>
       THEN /\ response' = ExplainAnswer(tool, 404, "Repository not found", 0)
            /\ UNCHANGED explanations
       ELSE /\ Len(explanations) < MaxExplanations
            /\ explanations' =
                 Append(explanations,
                        NewExplanation(1, id, file_path, "function", Reply,
                                       <<>>))
            /\ response' = ExplainAnswer(tool, 201, "", 1)
  /\ UNCHANGED <<str, escaped, markdown, html, diagramDescription, diagram,
                 quizzes, quizAttempts, repositories, r2, requests, files,
                 languages>>

\* POST /repositories/:id/explain and explain_code: not found without the
\* repository or without the file, else the model is asked and the
\* explanation of its reply is inserted.
ExplainCode ==
  /\ \E tool \in BOOLEAN, id \in 1..(MaxRepositories + 1),
        file_path \in {<<"src/auth", "ts">>, <<"missing">>} :
       IF Where(repositories, "id", id) = <<>>
       THEN /\ response' = ExplainAnswer(tool, 404, "Repository not found", 0)
            /\ UNCHANGED explanations
       ELSE IF <<Where(repositories, "id", id)[1].r2Path, file_path>> \notin r2
       THEN /\ response' = ExplainAnswer(tool, 404, "File not found", 0)
            /\ UNCHANGED explanations
       ELSE /\ Len(explanations) < MaxExplanations
            /\ explanations' =
                 Append(explanations,
                        NewExplanation(1, id, file_path, "function", Reply,
                                       <<>>))
            /\ response' = ExplainAnswer(tool, 201, "", 1)
  /\ UNCHANGED <<str, escaped, markdown, html, diagramDescription, diagram,
                 quizzes, quizAttempts, repositories, r2, requests, files,
                 languages>>

\* analyze_auth_flow: an error without the repository, a plain answer
\* without a file whose path names authentication, else the explanation.
AnalyzeAuthFlow ==
  /\ \E repositoryId \in 1..(MaxRepositories + 1) :
       IF Where(repositories, "id", repositoryId) = <<>>
       THEN /\ response' = [route |-> "analyze_auth_flow", isError |-> TRUE]
            /\ UNCHANGED explanations
       ELSE IF <<Where(repositories, "id", repositoryId)[1].r2Path,
                 <<"src/auth", "ts">>>> \notin r2
       THEN /\ response' = [route |-> "analyze_auth_flow", isError |-> FALSE,
                            text |-> <<"No authentication-related files">>]
            /\ UNCHANGED explanations
       ELSE /\ Len(explanations) < MaxExplanations
            /\ explanations' =
                 Append(explanations,
                        NewExplanation(1, repositoryId, "auth-flow-analysis",
                                       "flow", Reply, <<>>))
            /\ response' = [route |-> "analyze_auth_flow", isError |-> FALSE,
                            text |-> <<"Authentication Flow Analysis">>]
  /\ UNCHANGED <<str, escaped, markdown, html, diagramDescription, diagram,
                 quizzes, quizAttempts, repositories, r2, requests, files,
                 languages>>

\* POST /repositories/:id/quiz.  The handler looks no repository up: it
\* selects the explanations of the id, takes those of explanation_ids (or
\* the first three) and inserts the quiz; the insert throws on a broken
\* reference and the catch block answers 500.
PostQuiz ==
  /\ \E id \in 1..(MaxRepositories + 1), given \in BOOLEAN,
        explanation_id \in 1..MaxExplanations :
       LET found == Where(explanations, "repositoryId", id)
           relevantExplanations ==
             IF given THEN Where(found, "id", explanation_id)
             ELSE SubSeq(found, 1, IF Len(found) < 3 THEN Len(found) ELSE 3)
           explanationId == IF relevantExplanations = <<>> THEN 0
                            ELSE relevantExplanations[1].id
       IN  IF /\ ForeignKey(repositories, id)
              /\ explanationId = 0 \/ ForeignKey(explanations, explanationId)
           THEN /\ Len(quizzes) < MaxQuizzes
                /\ quizzes' = Append(quizzes,
                     [id |-> Len(quizzes) + 1, repositoryId |-> id,
                      explanationId |-> explanationId,
                      questions |-> FallbackQuestions])
                /\ response' = [route |-> "POST /repositories/:id/quiz",
                                status |-> 201]
           ELSE /\ response' = [route |-> "POST /repositories/:id/quiz",
                                status |-> 500, id |-> id]
                /\ UNCHANGED quizzes
  /\ UNCHANGED <<str, escaped, markdown, html, diagramDescription, diagram,
                 quizAttempts, repositories, explanations, r2, requests,
                 files, languages>>

\* generate_quiz: an error without an explanation of the repository, else
\* the quiz is inserted without explanationId.
GenerateQuiz ==
  /\ Len(quizzes) < MaxQuizzes
  /\ \E repositoryId \in 1..(MaxRepositories + 1) :
       IF Where(explanations, "repositoryId", repositoryId) = <<>>
       THEN /\ response' = [route |-> "generate_quiz", isError |-> TRUE]
            /\ UNCHANGED quizzes
       ELSE /\ ForeignKey(repositories, repositoryId)
            /\ quizzes' = Append(quizzes,
                 [id |-> Len(quizzes) + 1, repositoryId |-> repositoryId,
                  explanationId |-> 0, questions |-> FallbackQuestions])
            /\ response' = [route |-> "generate_quiz", isError |-> FALSE]
  /\ UNCHANGED <<str, escaped, markdown, html, diagramDescription, diagram,
                 quizAttempts, repositories, explanations, r2, requests,
                 files, languages>>

\* POST /quizzes/:id/attempt: 404 without the quiz, else the score is
\* computed and the attempt inserted.
PostAttempt ==
  /\ \E id \in 1..(MaxQuizzes + 1),
        answers \in {<<>>, <<[questionId |-> "1",
                              answer |-> "Authentication"]>>} :
       IF Where(quizzes, "id", id) = <<>>
       THEN /\ response' = [route |-> "POST /quizzes/:id/attempt",
                            status |-> 404]
            /\ UNCHANGED quizAttempts
       ELSE /\ Len(quizAttempts) < MaxAttempts
            /\ quizAttempts' = Append(quizAttempts,
                 [quizId |-> id, answers |-> answers,
                  score |-> ScoreOf(
                    CountCorrect(OrEmpty(Where(quizzes, "id", id)[1].questions),
                                 answers),
                    Len(OrEmpty(Where(quizzes, "id", id)[1].questions)))])
            /\ response' = [route |-> "POST /quizzes/:id/attempt",
                            status |-> 201]
  /\ UNCHANGED <<str, escaped, markdown, html, diagramDescription, diagram,
                 quizzes, repositories, explanations, r2, requests, files,
                 languages>>

\* GET /viewer: the first ten repository rows.
GetViewer ==
  /\ response' = [route |-> "GET /viewer", status |-> 200,
                  repositories |-> SubSeq(repositories, 1,
                    IF Len(repositories) < 10 THEN Len(repositories) ELSE 10)]
  /\ UNCHANGED <<str, escaped, markdown, html, diagramDescription, diagram,
                 quizzes, quizAttempts, repositories, explanations, r2,
                 requests, files, languages>>

\* A plausible slip: the duplicates that the listing finds are deleted.
GetRepositoriesWithCleanup ==
  /\ repositories' =
       SelectSeq(repositories, LAMBDA row :
         \/ row.sourceUrl = ""
         \/ ~ \E other \in 1..(row.id - 1) :
                repositories[other].sourceUrl = row.sourceUrl)
  /\ response' = [route |-> "GET /repositories", status |-> 200,
                  repositories |-> repositories',
                  duplicatesFound |-> Len(repositories) - Len(repositories')]
  /\ UNCHANGED <<str, escaped, markdown, html, diagramDescription, diagram,
                 quizzes, quizAttempts, explanations, r2, requests, files,
                 languages>>

\* GET /repositories: the rows without those whose sourceUrl an earlier
\* row has, and the count of the latter.
GetRepositories ==
  /\ response' =
       [route |-> "GET /repositories", status |-> 200,
        repositories |->
          SelectSeq(repositories, LAMBDA row :
            \/ row.sourceUrl = ""
            \/ ~ \E other \in 1..(row.id - 1) :
                   repositories[other].sourceUrl = row.sourceUrl),
        duplicatesFound |->
          Cardinality({i \in DOMAIN repositories :
            /\ repositories[i].sourceUrl # ""
            /\ \E other \in 1..(i - 1) :
                 repositories[other].sourceUrl = repositories[i].sourceUrl})]
  /\ UNCHANGED <<str, escaped, markdown, html, diagramDescription, diagram,
                 quizzes, quizAttempts, repositories, explanations, r2,
                 requests, files, languages>>

\* GET /repositories/:id/explanations: 404 without the repository; the
\* rows as JSON; or, for a browser, the page with the latest comprehensive
\* explanation rendered by markdownToHtml.
\* An insertion that puts the block right after the first heading.
InsertDiagramAfterHeading(s, from, to, url, alt) ==
  LET i == IndexOf(s, 1, from)
      j == IF i = 0 THEN 0 ELSE IndexOf(s, i + Len(from), to)
      block == <<"<div class=\"diagram\"><img src=\"">> \o url
               \o <<"\" alt=\"", alt,
                    "\" style=\"max-width: 100%; height: auto;\"/></div>">>
  IN  IF url = <<>> \/ j = 0 THEN s
      ELSE Slice(s, 1, i + Len(from)) \o block
           \o Slice(s, i + Len(from), Len(s) + 1)

\* finalContent.replace(/(from[\s\S]*?)(to)/, `$1<div ...>$2`) under
\* if (url): the first `from`, the first `to` after it, and the block
\* between the two groups; the text itself when there is no match or no URL.
InsertDiagram(s, from, to, url, alt) ==
  LET i == IndexOf(s, 1, from)
      j == IF i = 0 THEN 0 ELSE IndexOf(s, i + Len(from), to)
      block == <<"<div class=\"diagram\"><img src=\"">> \o url
               \o <<"\" alt=\"", alt,
                    "\" style=\"max-width: 100%; height: auto;\"/></div>">>
  IN  IF url = <<>> \/ j = 0 THEN s
      ELSE Slice(s, 1, j) \o block \o Slice(s, j, Len(s) + 1)

\* The three insertions of the HTML view, in the order of the code:
\* the diagram of the comprehensive row between sections 4 and 5, the
\* first "data-flow-diagram" row's between 5 and 6, the first
\* "code-analogies-diagram" row's between 6 and 7.
InsertDiagrams(htmlContent, comprehensiveExplanation, found) ==
  LET additionalDiagrams == Where(found, "explanationType", "diagram")
      dataFlowDiagram ==
        Where(additionalDiagrams, "filePath", "data-flow-diagram")
      codeAnalogiesDiagram ==
        Where(additionalDiagrams, "filePath", "code-analogies-diagram")
  IN  InsertDiagram(
        InsertDiagram(
          InsertDiagram(
            htmlContent,
            Tag("h2") \o <<"4", ".", " ", "PROJECT STRUCTURE">>
            \o CloseTag("h2"),
            Tag("h2") \o <<"5", ".", " ", "DATA FLOW ARCHITECTURE">>
            \o CloseTag("h2"),
            comprehensiveExplanation.diagramUrl,
            "Project Structure Diagram"),
          Tag("h2") \o <<"5", ".", " ", "DATA FLOW ARCHITECTURE">>
          \o CloseTag("h2"),
          Tag("h2") \o <<"6", ".", " ", "CODE ANALOGIES">>,
          IF dataFlowDiagram = <<>> THEN <<>>
          ELSE dataFlowDiagram[1].diagramUrl,
          "State & Props Flow Tree Structure"),
        Tag("h2") \o <<"6", ".", " ", "CODE ANALOGIES", " & EXPLANATIONS">>
        \o CloseTag("h2"),
        Tag("h2") \o <<"7", ".", " ", "LEARNING QUIZ">>,
        IF codeAnalogiesDiagram = <<>> THEN <<>>
        ELSE codeAnalogiesDiagram[1].diagramUrl,
        "Code Analogies & Visual Explanations")

GetExplanations ==
  /\ \E id \in 1..(MaxRepositories + 1), accept \in {"json", "text/html"} :
       LET found == Where(explanations, "repositoryId", id)
           comprehensive == Where(found, "explanationType", "comprehensive")
       IN  response' =
             IF Where(repositories, "id", id) = <<>>
             THEN [route |-> "GET /repositories/:id/explanations",
                   status |-> 404]
             ELSE IF accept = "json"
             THEN [route |-> "GET /repositories/:id/explanations",
                   status |-> 200, explanations |-> found]
             ELSE [route |-> "GET /repositories/:id/explanations",
                   status |-> 200,
                   html |-> IF comprehensive = <<>> THEN <<>>
                            ELSE InsertDiagrams(
                                   markdownToHtml(
                                     comprehensive[Len(comprehensive)]
                                       .content),
                                   comprehensive[Len(comprehensive)],
                                   found)]
  /\ UNCHANGED <<str, escaped, markdown, html, diagramDescription, diagram,
                 quizzes, quizAttempts, repositories, explanations, r2,
                 requests, files, languages>>

MaxSections == 4

\* The store after analyses of one repository whose comprehensive row
\* holds any order of the headings of sections 4 to 7, or of sections 5
\* to 7 with the heading of section 6 cut short. Each of the three
\* diagrams is stored or not: the comprehensive row and the
\* "code-analogies-diagram" row then have no URL, the "data-flow-diagram"
\* row is not there.
InitViewer ==
  /\ repositories =
       <<[id |-> 1, sourceType |-> "upload", sourceUrl |-> None,
          fileCount |-> 0, languages |-> <<>>, r2Path |-> 1]>>
  /\ \E kinds \in SeqsUpTo({"section4", "section5", "section6",
                            "section7"}, MaxSections)
                  \cup SeqsUpTo({"section5", "section6short", "section7"},
                                MaxSections - 1),
        stored \in SUBSET {"P", "F", "A"} :
       /\ explanations =
            SelectSeq(
              [k \in 1..3 |->
                 [id |-> k, repositoryId |-> 1,
                  filePath |-> <<"comprehensive-analysis",
                                 "data-flow-diagram",
                                 "code-analogies-diagram">>[k],
                  explanationType |->
                    IF k = 1 THEN "comprehensive" ELSE "diagram",
                  content |-> IF k = 1 THEN Document(kinds) ELSE <<"d">>,
                  diagramUrl |->
                    IF <<"P", "F", "A">>[k] \in stored
                    THEN <<"data:image/svg+xml;base64,",
                           <<"P", "F", "A">>[k]>>
                    ELSE <<>>]],
              LAMBDA row : row.id # 2 \/ "F" \in stored)
  /\ r2 = {} /\ quizzes = <<>> /\ quizAttempts = <<>>
  /\ response = NoResponse /\ requests = EmptyBag
  /\ str = None /\ escaped = None /\ markdown = None /\ html = None
  /\ diagramDescription = None /\ diagram = NoDiagram
  /\ files = None /\ languages = None

SpecViewer == InitViewer /\ [][GetExplanations]_vars

\* GET /explanations/:id.
GetExplanation ==
  /\ \E id \in 1..(MaxExplanations + 1) :
       response' =
         IF Where(explanations, "id", id) = <<>>
         THEN [route |-> "GET /explanations/:id", status |-> 404]
         ELSE [route |-> "GET /explanations/:id", status |-> 200,
               explanation |-> Where(explanations, "id", id)[1]]
  /\ UNCHANGED <<str, escaped, markdown, html, diagramDescription, diagram,
                 quizzes, quizAttempts, repositories, explanations, r2,
                 requests, files, languages>>

NextApi ==
  \/ PostUpload \/ GithubLookup \/ GithubStore \/ AnalyzeRepository
  \/ ExplainCode \/ AnalyzeAuthFlow \/ PostQuiz \/ GenerateQuiz
  \/ PostAttempt \/ GetViewer \/ GetRepositories \/ GetExplanations
  \/ GetExplanation

SpecApi == InitApi /\ [][NextApi]_vars

(***************************************************************************)
(* C1.  escapeHtml is the character-wise substitution of the five reserved *)
(* characters by their entities: every reserved character is replaced      *)
(* exactly once (no entity is re-escaped), the result holds no literal     *)
(* < > " ' and every & in it starts one of the five entities, and a text   *)
(* without reserved characters is returned unchanged.                      *)
(***************************************************************************)
Reserved == {"&", "<", ">", "\"", "'"}

EntityTails == {"amp;", "lt;", "gt;", "quot;", "#39;"}

EntityOf(c) ==
  CASE c = "&" -> <<"&", "amp;">>
    [] c = "<" -> <<"&", "lt;">>
    [] c = ">" -> <<"&", "gt;">>
    [] c = "\"" -> <<"&", "quot;">>
    [] c = "'" -> <<"&", "#39;">>
    [] OTHER -> <<c>>

C1_EscapeIsCharwise ==
  escaped # None =>
    /\ escaped = Flatten([i \in 1..Len(str) |-> EntityOf(str[i])])
    /\ \A i \in 1..Len(escaped) :
         /\ escaped[i] \notin {"<", ">", "\"", "'"}
         /\ escaped[i] = "&" =>
              i < Len(escaped) /\ escaped[i + 1] \in EntityTails
    /\ (\A i \in 1..Len(str) : str[i] \notin Reserved) => escaped = str

\* "<&" was escaped to "&lt;&amp;": the entity made for < was not re-escaped.
C1_Witness ==
  /\ str = <<"<", "&">>
  /\ escaped = <<"&", "lt;", "&", "amp;">>

(***************************************************************************)
(* What the claims about markdownToHtml count in a document and in its     *)
(* output.                                                                 *)
(***************************************************************************)
Occurrences(s, lit) == Cardinality({k \in 1..Len(s) : StartsAt(s, k, lit)})

Converted == html # None

\* The quiz blocks of the document.
QuizBlocks == Occurrences(markdown, QuestionMark)

\* The resource entries of the document, by the position of their marker:
\* those of the form title - URL or link - description on one line, and
\* the malformed ones, whose line holds no URL.
EntryStarts ==
  {p \in DOMAIN markdown :
     /\ StartsAt(markdown, p, ResourceMark)
     /\ Includes(Slice(markdown, p, RunUntil(markdown, p, {NL})),
                 <<":", "/", "/">>)}

ResourceEntries == Cardinality(EntryStarts)
MalformedEntries == Occurrences(markdown, ResourceMark) - ResourceEntries

\* The section 8 heading, in the document and in the output.
HeadingEightLine == <<"#", "#", " ", "8", ".", " ", SupplementalTitle>>
HeadingEight ==
  Tag("h2") \o <<"8", ".", " ", SupplementalTitle>> \o CloseTag("h2")

\* The start of the k-th quiz block's element in the output: its summary,
\* its expected answer's paragraph and the start of its follow-up's.
DetailsOf(k) ==
  Tag("details") \o <<NL>> \o Tag("summary") \o Tag("strong")
  \o <<"Question", " ", NumberToken(k), ":">> \o CloseTag("strong")
  \o <<" ", "q">> \o CloseTag("summary") \o <<NL>> \o Tag("p") \o Tag("strong")
  \o <<"Expected Answer", ":">> \o CloseTag("strong") \o <<" ", "a">>
  \o CloseTag("p") \o <<NL>> \o Tag("p") \o Tag("strong")
  \o <<"Follow-up", ":">> \o CloseTag("strong") \o <<" ", "f">>

(***************************************************************************)
(* C2.  For a document with N well-formed quiz blocks the output holds     *)
(* exactly N details elements, the k-th with the summary Question k and    *)
(* the block's question, its expected answer and its follow-up each in a   *)
(* paragraph of their own, and no literal Question marker is left over.    *)
(***************************************************************************)
C2_QuizBlocksBecomeDetails ==
  Converted =>
    /\ Occurrences(html, Tag("details")) = QuizBlocks
    /\ Occurrences(html, CloseTag("details")) = QuizBlocks
    /\ \A k \in 1..QuizBlocks : Occurrences(html, DetailsOf(k)) = 1
    /\ \A k \in 1..(QuizBlocks - 1) :
         IndexOf(html, 1, DetailsOf(k)) < IndexOf(html, 1, DetailsOf(k + 1))
    /\ Occurrences(html, <<"*", "*", "Question">>) = 0

(***************************************************************************)
(* C3.  For a document with M >= 1 resource entries the output holds       *)
(* exactly one resources list, with exactly M items; with a section 8      *)
(* heading in the output's body the list is injected under it and no       *)
(* heading is created, without one a single new section with the heading   *)
(* and the list ends the output; exactly one of the two paths is taken.    *)
(***************************************************************************)
ListUnderHeading == HeadingEight \o <<NL>> \o Tag("ul") \o <<NL, Ind(20)>> \o Tag("li")

\* The output ends as resourcesSection does; the body that the line pass
\* assembles never ends with a closing section tag.
EndsWithSection ==
  StartsAt(html, Len(html) - 8, CloseTag("ul") \o <<NL>> \o CloseTag("section"))

C3_OneResourcesList ==
  (Converted /\ ResourceEntries >= 1) =>
    /\ Occurrences(html, Tag("ul")) = 1
    /\ Occurrences(html, CloseTag("ul")) = 1
    /\ Occurrences(html, Tag("li")) = ResourceEntries
    /\ Occurrences(html, ListUnderHeading) = 1
    /\ MalformedEntries = 0 => Occurrences(html, ResourceMark) = 0
    /\ \/ /\ EndsWithSection
          /\ Occurrences(html, HeadingEight) = 1
       \/ /\ ~EndsWithSection
          /\ Occurrences(html, HeadingEight)
               <= Occurrences(markdown, HeadingEightLine)

\* Two resource entries were listed under the heading the document had.
C3_Witness ==
  /\ Converted /\ ResourceEntries = 2
  /\ Occurrences(html, Tag("li")) = 2
  /\ Occurrences(markdown, HeadingEightLine) = 1
  /\ Occurrences(html, HeadingEight) = 1
  /\ ~EndsWithSection

(***************************************************************************)
(* C4.  For a document with a section 2 and a section 3 that hold the same *)
(* inline code span, the span of section 2 is rendered as a code element   *)
(* and the span of section 3 as an inline-code span, whatever else (quiz   *)
(* blocks, resource entries, a section 8 heading) the document holds.      *)
(***************************************************************************)
HasSectionsTwoAndThree ==
  /\ Includes(markdown, Block("section2", 1))
  /\ Includes(markdown, Block("section3", 1))

C4_CodeOnlyInSectionTwo ==
  (Converted /\ HasSectionsTwoAndThree) =>
    LET three == IndexOf(html, 1, Tag("h2") \o <<"3", ".">>)
        sectionTwo == Slice(html, 1, three)
        sectionThree == Slice(html, three, Len(html) + 1)
    IN  /\ three # 0
        /\ Occurrences(sectionTwo, Tag("code")) = 1
        /\ Occurrences(sectionTwo, SpanOpen) = 0
        /\ Occurrences(sectionThree, SpanOpen) = 1
        /\ Occurrences(sectionThree, Tag("code")) = 0

(***************************************************************************)
(* C5.  In the line pass an item of the other kind closes the open list    *)
(* before its own list is opened: a bullet line after a numbered line      *)
(* gives the closing ol tag, the opening ul tag and the item (and the      *)
(* other way round), and no list of the output holds an item that came     *)
(* from a line of the other kind.                                          *)
(***************************************************************************)
BulletItem == ListItem(<<"a">>)
NumberedItem == ListItem(<<"b">>)

\* The items between every opening tag of a list and its closing tag are
\* not the given ones.
ListsWithout(name, item) ==
  \A i \in 1..Len(html) :
    StartsAt(html, i, Tag(name)) =>
      LET c == IndexOf(html, i, CloseTag(name))
      IN  c # 0 /\ ~Includes(Slice(html, i, c), item)

C5_ListKindSwitchCloses ==
  Converted =>
    /\ Occurrences(markdown, Block("numbered", 1) \o <<NL>> \o Block("bullet", 1))
         <= Occurrences(html, NumberedItem \o <<NL>> \o CloseTag("ol") \o <<NL>>
                             \o Tag("ul") \o <<NL>> \o BulletItem)
    /\ Occurrences(markdown, Block("bullet", 1) \o <<NL>> \o Block("numbered", 1))
         <= Occurrences(html, BulletItem \o <<NL>> \o CloseTag("ul") \o <<NL>>
                             \o Tag("ol") \o <<NL>> \o NumberedItem)
    /\ ListsWithout("ol", BulletItem)
    /\ ListsWithout("ul", NumberedItem)

\* A document switched from an ordered to an unordered list and back.
C5_Witness ==
  /\ Converted
  /\ Includes(html, CloseTag("ol") \o <<NL>> \o Tag("ul") \o <<NL>> \o BulletItem
                    \o <<NL>> \o CloseTag("ul") \o <<NL>> \o Tag("ol"))


(***************************************************************************)
(* C6.  createAdvancedSVG dispatches on case-insensitive keyword matches   *)
(* in strict priority: structure ("project structure", "file               *)
(* organization"), else state tree ("data flow", "state", "props"), else   *)
(* analogy ("analogies", "concepts"), else generic; exactly one generator  *)
(* is invoked by it (a second one only by the catch block, the fallback).  *)
(***************************************************************************)
Mentions(keywords) ==
  \E i \in 1..Len(diagramDescription) :
    \E k \in keywords : toLowerCase(<<diagramDescription[i]>>) = <<k>>

CategoryGenerator ==
  IF Mentions({"project structure", "file organization"})
  THEN "createProjectStructureSVG"
  ELSE IF Mentions({"data flow", "state", "props"})
  THEN "createStatePropsTreeSVG"
  ELSE IF Mentions({"analogies", "concepts"})
  THEN "createCodeAnalogiesSVG"
  ELSE "createGenericDiagramSVG"

C6_PriorityDispatch ==
  diagram.promise # "none" =>
    /\ Len(diagram.invoked) >= 1
    /\ diagram.invoked[1] = CategoryGenerator
    /\ \A i \in 2..Len(diagram.invoked) : diagram.invoked[i] = "createFallbackSVG"
    /\ Len(diagram.invoked) <= 2

\* A description naming keywords of all three sets went to the structure
\* generator alone.
C6_Witness ==
  /\ diagramDescription = <<"concepts", "State", "Project Structure">>
  /\ diagram.invoked = <<"createProjectStructureSVG">>

(***************************************************************************)
(* C7.  For every description (of Latin-1 characters) generateDiagramImage *)
(* resolves to the data URI of the template of the description's category, *)
(* not to the fallback template.                                           *)
(***************************************************************************)
AllLatin1(s) == \A i \in 1..Len(s) : s[i] \notin NonLatin1

CategoryTemplate ==
  IF Mentions({"project structure", "file organization"})
  THEN ProjectStructureTemplate(diagramDescription)
  ELSE IF Mentions({"data flow", "state", "props"})
  THEN StatePropsTreeTemplate(diagramDescription)
  ELSE IF Mentions({"analogies", "concepts"})
  THEN CodeAnalogiesTemplate(diagramDescription)
  ELSE GenericDiagramTemplate(diagramDescription)

C7_ReturnsCategoryTemplate ==
  (diagram.promise # "none" /\ AllLatin1(diagramDescription)) =>
    /\ diagram.promise = "resolved"
    /\ diagram.value =
         <<"data:image/svg+xml;base64,", "base64(">> \o CategoryTemplate \o <<")">>

(***************************************************************************)
(* C8.  generateDiagramImage never propagates an error: whatever the       *)
(* description holds, its promise resolves, and when a generator threw it  *)
(* resolves to the data URI of the fallback template.                      *)
(***************************************************************************)
C8_NeverRejects ==
  diagram.promise # "none" =>
    /\ diagram.promise = "resolved"
    /\ Len(diagram.invoked) = 2 =>
         diagram.value = <<"data:image/svg+xml;base64,", "base64(">>
                         \o FallbackTemplate(diagramDescription) \o <<")">>

(***************************************************************************)
(* C9.  For a quiz with a non-empty question list the attempt handler      *)
(* computes score = round(100 * correct / total): total is the number of   *)
(* questions, correct the number of questions whose submitted answer (the  *)
(* last entry with the question's id) is exactly the question's            *)
(* correctAnswer; unanswered questions and answers for unknown ids count   *)
(* nothing; 3 of 4 gives 75.                                               *)
(***************************************************************************)
SubmittedCorrectly(questions, answers) ==
  {k \in 1..Len(questions) :
     \E i \in 1..Len(answers) :
       /\ answers[i].questionId = questions[k].id
       /\ \A j \in (i + 1)..Len(answers) :
            answers[j].questionId # questions[k].id
       /\ answers[i].answer = questions[k].correctAnswer}

\* n = round(100 * c / t), halves rounded up.
IsRounded(n, c, t) == 2 * t * n <= 200 * c + t /\ 200 * c + t < 2 * t * n + 2 * t

C9_ScoreIsRoundedPercentage ==
  \A a \in 1..Len(quizAttempts) :
    LET attempt == quizAttempts[a]
        quiz == quizzes[attempt.quizId]
        questions == OrEmpty(quiz.questions)
        correct == Cardinality(SubmittedCorrectly(questions, attempt.answers))
    IN  Len(questions) > 0 =>
          /\ ~attempt.score.nan
          /\ IsRounded(attempt.score.int, correct, Len(questions))
          /\ response.route = "attempt" /\ response.status = 201
          /\ response.score = attempt.score
          /\ response.correctAnswers = correct
          /\ response.totalQuestions = Len(questions)

\* Three of four questions answered correctly (one wrongly, one answer for
\* an unknown id): the score is 75.
C9_Witness ==
  /\ Len(quizAttempts) = 1
  /\ Len(OrEmpty(quizzes[1].questions)) = 4
  /\ quizAttempts[1].answers =
       <<[questionId |-> "zz", answer |-> "A"],
         [questionId |-> "q1", answer |-> "A"],
         [questionId |-> "q2", answer |-> "A"],
         [questionId |-> "q3", answer |-> "A"]>>
  /\ quizAttempts[1].score = Num(75)

(***************************************************************************)
(* C10.  Every score the attempt handler computes and stores is an integer *)
(* from 0 to 100, also for a quiz whose question list is empty or null     *)
(* (where it is 0), never NaN.                                             *)
(***************************************************************************)
IsPercentage(n) == ~n.nan /\ n.int \in 0..100

C10_ScoreIsDefined ==
  /\ \A a \in 1..Len(quizAttempts) : IsPercentage(quizAttempts[a].score)
  /\ (response.route = "attempt" /\ response.status # 404) =>
       /\ response.status = 201
       /\ IsPercentage(response.score)
       /\ response.totalQuestions = 0 => response.score = Num(0)

(***************************************************************************)
(* C11.  After any sequence of requests every stored explanation names an  *)
(* existing repository, every stored quiz names an existing repository     *)
(* and, when its explanationId is set, an existing explanation of that     *)
(* repository, and every stored attempt names an existing quiz; a POST     *)
(* /repositories/:id/quiz for an id of no repository leaves no quiz row.   *)
(***************************************************************************)
C11_ReferencesExist ==
  /\ \A e \in DOMAIN explanations :
       \E r \in DOMAIN repositories :
         repositories[r].id = explanations[e].repositoryId
  /\ \A k \in DOMAIN quizzes :
       /\ \E r \in DOMAIN repositories :
            repositories[r].id = quizzes[k].repositoryId
       /\ quizzes[k].explanationId # 0 =>
            \E e \in DOMAIN explanations :
              /\ explanations[e].id = quizzes[k].explanationId
              /\ explanations[e].repositoryId = quizzes[k].repositoryId
  /\ \A a \in DOMAIN quizAttempts :
       \E k \in DOMAIN quizzes : quizzes[k].id = quizAttempts[a].quizId

\* A quiz request for an id of no repository has been answered while a
\* quiz with an explanation and an attempt at it are stored.
C11_Witness ==
  /\ response.route = "POST /repositories/:id/quiz"
  /\ response.status = 500
  /\ \A r \in DOMAIN repositories : repositories[r].id # response.id
  /\ \E k \in DOMAIN quizzes : quizzes[k].explanationId # 0
  /\ quizAttempts # <<>>

(***************************************************************************)
(* C16.  After any interleaving of POST /repositories/github requests and  *)
(* analyze_repository calls, overlapping ones included, at most one        *)
(* repository row has a given sourceUrl.                                   *)
(***************************************************************************)
C16_OneRowPerSourceUrl ==
  \A i, j \in DOMAIN repositories :
    (i # j /\ repositories[i].sourceUrl # "")
      => repositories[i].sourceUrl # repositories[j].sourceUrl

(***************************************************************************)
(* C17.  Rows are append-only and the bucket only grows; a step that       *)
(* answers one of the four read routes changes no table and no object;     *)
(* the explanations served as JSON are stored rows, and the HTML served is *)
(* markdownToHtml of the content of a stored row.                          *)
(***************************************************************************)
C17_AppendOnlyReadsPure ==
  [][/\ \A table \in {<<repositories, repositories'>>,
                      <<explanations, explanations'>>,
                      <<quizzes, quizzes'>>,
                      <<quizAttempts, quizAttempts'>>} :
          /\ Len(table[1]) <= Len(table[2])
          /\ SubSeq(table[2], 1, Len(table[1])) = table[1]
     /\ r2 \subseteq r2'
     /\ (/\ response' # response
         /\ response'.route \in {"GET /viewer", "GET /repositories",
                                 "GET /repositories/:id/explanations",
                                 "GET /explanations/:id"})
        => /\ UNCHANGED <<repositories, explanations, quizzes, quizAttempts,
                          r2>>
           /\ "explanation" \in DOMAIN response' =>
                \E e \in DOMAIN explanations :
                  explanations'[e] = response'.explanation
           /\ "explanations" \in DOMAIN response' =>
                \A n \in DOMAIN response'.explanations :
                  \E e \in DOMAIN explanations :
                    explanations'[e] = response'.explanations[n]
           /\ "html" \in DOMAIN response' =>
                \/ response'.html = <<>>
                \/ \E e \in DOMAIN explanations :
                     /\ explanations'[e].content # response'.html
                     /\ markdownToHtml(explanations'[e].content)
                          = response'.html
    ]_vars

\* A page rendered from a stored explanation has been served while rows
\* of all four tables are stored.
C17_Witness ==
  /\ response.route = "GET /repositories/:id/explanations"
  /\ "html" \in DOMAIN response
  /\ response.html # <<>>
  /\ quizzes # <<>> /\ quizAttempts # <<>>

(***************************************************************************)
(* C15.  The languages detected hold no duplicate and are exactly the      *)
(* languages that langMap gives for the lower-cased extensions of the      *)
(* files, in the order of their first file, where only a name with a dot   *)
(* has an extension: a file without a dot or with an unmapped extension    *)
(* contributes nothing.                                                    *)
(***************************************************************************)
C15_LanguagesFromExtensions ==
  languages # None =>
    LET mapped == {i \in DOMAIN files :
                     /\ Len(files[i]) > 1
                     /\ toLowerCase(<<files[i][Len(files[i])]>>)[1]
                          \in DOMAIN langMap}
        lang(i) == langMap[toLowerCase(<<files[i][Len(files[i])]>>)[1]]
        first(l) == Least({i \in mapped : lang(i) = l})
    IN  /\ \A k, l \in DOMAIN languages :
             k # l => languages[k] # languages[l]
        /\ {languages[k] : k \in DOMAIN languages} = {lang(i) : i \in mapped}
        /\ \A k, l \in DOMAIN languages :
             k < l => first(languages[k]) < first(languages[l])

(***************************************************************************)
(* C12.  markdownToHtml returns for every document; for a document of      *)
(* plain words, spaces and newlines only, every non-blank line gives       *)
(* exactly one paragraph that holds the trimmed line, in the order of the  *)
(* lines, and no word is dropped.                                          *)
(***************************************************************************)
PlainWords == {"x", "y"}

PlainDocument == \A k \in DOMAIN markdown : markdown[k] \in PlainWords \cup Whitespace

\* The positions of the first word of a line.
FirstWords(s) ==
  {k \in DOMAIN s :
     /\ s[k] \in PlainWords
     /\ \A j \in 1..(k - 1) :
          s[j] \in PlainWords => \E n \in (j + 1)..(k - 1) : s[n] = NL}

C12_PlainLinesBecomeParagraphs ==
  (Converted /\ PlainDocument) =>
    /\ StartsAt(html, 1, Tag("section") \o <<NL>>)
    /\ Occurrences(html, Tag("p")) = Cardinality(FirstWords(markdown))
    /\ Occurrences(html, CloseTag("p")) = Cardinality(FirstWords(markdown))
    /\ SelectSeq(html, LAMBDA c : c \in PlainWords)
         = SelectSeq(markdown, LAMBDA c : c \in PlainWords)
    /\ \A i \in DOMAIN html :
         /\ StartsAt(html, i, Tag("p")) =>
              /\ html[i + 3] \in PlainWords
              /\ i > 1 /\ html[i - 1] = Ind(16)
              /\ i > 2 /\ html[i - 2] = NL
         /\ StartsAt(html, i, CloseTag("p")) =>
              /\ html[i - 1] \in PlainWords
              /\ i + 4 <= Len(html) => html[i + 4] = NL
         /\ (html[i] = " " /\ i > 1 /\ i < Len(html)) =>
              html[i - 1] \in PlainWords /\ html[i + 1] \in PlainWords
    /\ Occurrences(html, <<" ">>)
         = Cardinality({k \in DOMAIN markdown :
              /\ markdown[k] = " " /\ k > 1 /\ k < Len(markdown)
              /\ markdown[k - 1] \in PlainWords
              /\ markdown[k + 1] \in PlainWords})

\* A padded line between two plain lines has been converted.
C12_Witness ==
  /\ Converted /\ PlainDocument
  /\ markdown = Document(<<"paragraph", "blank", "padded">>)
  /\ Occurrences(html, Tag("p")) = 2

(***************************************************************************)
(* C13.  Every backtick span of the document, in a paragraph, a list item  *)
(* or a field of a quiz block, is emitted with its text escaped: when      *)
(* every <b> of the document stands between backticks (and the document    *)
(* holds no fence and no section 2, whose spans are rewritten later), the  *)
(* output holds the escaped text once per span and no <b> tag.             *)
(***************************************************************************)
C13_SpansAreEscaped ==
  (/\ Converted
   /\ Occurrences(markdown, Tag("b")) = Occurrences(markdown, CodeSpan)
   /\ ~Includes(markdown, Fence)
   /\ ~Includes(markdown, <<"#", "#", " ", "2", ".">>)) =>
    /\ ~Includes(html, Tag("b"))
    /\ Occurrences(html, <<"&", "lt;", "b", "&", "gt;">>) = Occurrences(markdown, CodeSpan)

(***************************************************************************)
(* C14.  Every tag of the output is one that markdownToHtml generates: a   *)
(* line of the document that begins with < and plain text with markup     *)
(* characters give no tag.                                                 *)
(***************************************************************************)
GeneratedTags ==
  {"section", "h2", "h3", "p", "ul", "ol", "li", "details", "summary",
   "strong", "code", "pre", "span", "pre class=", "span class="}

C14_OnlyGeneratedTags ==
  Converted =>
    \A i \in DOMAIN html :
      html[i] = "<" =>
        /\ i < Len(html)
        /\ \/ html[i + 1] \in GeneratedTags
           \/ /\ html[i + 1] = "/"
              /\ i + 1 < Len(html)
              /\ html[i + 2] \in GeneratedTags

(***************************************************************************)
(* C18.  Every fenced code block of the document is emitted as one pre     *)
(* element of class code-block with the escaped code, and no backtick of   *)
(* a fence is left in the output.                                          *)
(***************************************************************************)
C18_FencedBlocksBecomePre ==
  (Converted /\ Includes(markdown, Fence)) =>
    /\ 2 * Occurrences(html, PreOpen) = Occurrences(markdown, Fence)
    /\ Occurrences(html, PreOpen \o Tag("code") \o <<"c", "&", "lt;">>)
         = Occurrences(html, PreOpen)
    /\ ~Includes(html, <<Backtick>>)

(***************************************************************************)
(* C19.  The list tags of the output are well formed: opening and closing  *)
(* tags alternate from an opening one, a closing tag has the kind of the   *)
(* opening tag before it, every item stands after an opening tag, every    *)
(* paragraph and line of markup of the line pass stands outside a list,    *)
(* the last list tag closes, and (in a document without blocks of several  *)
(* lines) a list is opened exactly by the list lines whose previous line   *)
(* is not a list line of the same kind.                                    *)
(***************************************************************************)
IsOpen(i) == i + 1 <= Len(html) /\ html[i] = "<" /\ html[i + 1] \in {"ul", "ol"}

IsClose(i) ==
  /\ i + 2 <= Len(html)
  /\ html[i] = "<" /\ html[i + 1] = "/" /\ html[i + 2] \in {"ul", "ol"}

\* The last list tag before position i, 0 without one.
ListTagBefore(i) ==
  LET P == {j \in 1..(i - 1) : IsOpen(j) \/ IsClose(j)}
  IN  IF P = {} THEN 0 ELSE CHOOSE a \in P : \A b \in P : b <= a

\* The kind of list that the line at position k of the document is an
\* item of: "ul", "ol" or "".
ListKindAt(k) ==
  IF StartsAt(markdown, k, <<"-", " ">>) THEN "ul"
  ELSE IF StartsAt(markdown, k, <<"1", ".", " ">>) THEN "ol"
  ELSE ""

\* The start of the line before the line that starts at k, 0 for the
\* first line.
PreviousLine(k) ==
  IF k = 1 THEN 0
  ELSE LET P == {j \in 1..(k - 2) : markdown[j] = NL}
       IN  IF P = {} THEN 1 ELSE 1 + CHOOSE a \in P : \A b \in P : b <= a

C19_ListTagsWellFormed ==
  Converted =>
    /\ \A i \in DOMAIN html :
         /\ IsOpen(i) => ListTagBefore(i) = 0 \/ IsClose(ListTagBefore(i))
         /\ IsClose(i) =>
              /\ ListTagBefore(i) # 0
              /\ IsOpen(ListTagBefore(i))
              /\ html[ListTagBefore(i) + 1] = html[i + 2]
         /\ StartsAt(html, i, Tag("li")) =>
              ListTagBefore(i) # 0 /\ IsOpen(ListTagBefore(i))
         /\ (/\ i = 1 \/ html[i - 1] = NL
             /\ html[i] \in {Ind(16), "<"}
             /\ ~IsOpen(i) /\ ~IsClose(i)) =>
              ListTagBefore(i) = 0 \/ IsClose(ListTagBefore(i))
    /\ LET last == ListTagBefore(Len(html) + 1)
       IN  last = 0 \/ IsClose(last)
    /\ (QuizBlocks = 0 /\ ResourceEntries = 0 /\ ~Includes(markdown, Fence)) =>
         Cardinality({i \in DOMAIN html : IsOpen(i)})
           = Cardinality({k \in DOMAIN markdown :
                /\ k = 1 \/ markdown[k - 1] = NL
                /\ ListKindAt(k) # ""
                /\ \/ PreviousLine(k) = 0
                   \/ ListKindAt(PreviousLine(k)) # ListKindAt(k)})

\* Two lists with a blank line between them, a paragraph after them and a
\* list left open at the end of the document have been converted.
C19_Witness ==
  /\ Converted
  /\ markdown \in {Document(<<"bullet", "blank", "bullet", "numbered">>),
                   Document(<<"bullet", "blank", "numbered", "paragraph">>)}
  /\ Cardinality({i \in DOMAIN html : IsClose(i)}) >= 2

(***************************************************************************)
(* C20.  The output begins with one opening section tag: exactly one       *)
(* stands before the first content, and for a document that begins with a  *)
(* section heading neither a closing section tag nor a second opening one  *)
(* stands before the first h2.                                             *)
(***************************************************************************)
C20_OneLeadingSection ==
  Converted =>
    /\ StartsAt(html, 1, Tag("section") \o <<NL>>)
    /\ ~StartsAt(html, 5, Tag("section"))
    /\ (StartsAt(markdown, 1, <<"#", "#", " ">>) /\ markdown[4] \in Digits) =>
         LET h == IndexOf(html, 1, Tag("h2"))
         IN  /\ h # 0
             /\ Occurrences(Slice(html, 1, h), Tag("section")) = 1
             /\ ~Includes(Slice(html, 1, h), CloseTag("section"))

(***************************************************************************)
(* C21.  Text outside the quiz blocks stays outside the quiz markup: in a  *)
(* document with quiz blocks and no Resource marker, every paragraph line  *)
(* gives its paragraph, and no paragraph of a line and no section heading  *)
(* stands between <details> and </details>.                                *)
(***************************************************************************)
\* The lines of the document that are the one word x.
PlainLines ==
  Cardinality({k \in DOMAIN markdown :
                 /\ markdown[k] = "x"
                 /\ k = 1 \/ markdown[k - 1] = NL
                 /\ k = Len(markdown) \/ markdown[k + 1] = NL})

\* Position i of the output lies in a details element.
InDetails(i) ==
  \E j \in 1..(i - 1) :
    /\ StartsAt(html, j, Tag("details"))
    /\ IndexOf(html, j, CloseTag("details")) \notin j..i

C21_TextAfterQuizStaysOutside ==
  (Converted /\ QuizBlocks > 0 /\ Occurrences(markdown, ResourceMark) = 0) =>
    /\ Occurrences(html, Tag("p") \o <<"x">> \o CloseTag("p")) = PlainLines
    /\ \A i \in DOMAIN html :
         (\/ StartsAt(html, i, Tag("p") \o <<"x">>)
          \/ StartsAt(html, i, Tag("h2"))) => ~InDetails(i)

(***************************************************************************)
(* C22.  In a document whose resource entries are all well formed, the     *)
(* k-th entry gives the k-th list item, title - URL: for a bare URL the    *)
(* title is the text between the marker and the first space dash space and *)
(* the URL the token that follows it; for a markdown link the label and    *)
(* the target of the link.  The item ends after the URL, so that it holds  *)
(* nothing of the description.                                             *)
(***************************************************************************)
\* Where the title of the entry at position p of the document ends: at the
\* first space dash space, or at the first one that a link or a URL
\* follows.
TitleStop(p, first) ==
  IF first THEN IndexOf(markdown, p + 9, Dash)
  ELSE Least({j \in (p + 9)..(Len(markdown) - 3) :
                /\ StartsAt(markdown, j, Dash)
                /\ markdown[j + 3] \in {"[", "http", "https"}})

\* The text of the item of the entry at position p: the label and target
\* of its link, or else its title and its URL.
ExpectedItem(p, first) ==
  LET d == TitleStop(p, first)
      u == d + 3
  IN  IF markdown[u] = "["
      THEN Slice(markdown, u + 1, IndexOf(markdown, u, <<"]">>)) \o Dash
           \o Slice(markdown, IndexOf(markdown, u, <<"(">>) + 1,
                    IndexOf(markdown, u, <<")">>))
      ELSE Slice(markdown, p + 9, d) \o Dash
           \o Slice(markdown, u, IndexOf(markdown, u, Dash))

\* One item per well-formed entry, in the order of the entries, each with
\* the text that its own entry gives.
ItemsMatchEntries(first) ==
  /\ Occurrences(html, Tag("li")) = ResourceEntries
  /\ \A p \in EntryStarts :
       \E i \in DOMAIN html :
         /\ StartsAt(html, i, Tag("li") \o ExpectedItem(p, first)
                                \o CloseTag("li"))
         /\ Cardinality({j \in 1..i : StartsAt(html, j, Tag("li"))})
              = Cardinality({q \in EntryStarts : q <= p})

C22_ItemsAreTitleAndUrl ==
  (Converted /\ ResourceEntries > 0 /\ MalformedEntries = 0) =>
    ItemsMatchEntries(TRUE)

\* C22 as the code has it: the title of an entry runs up to the first
\* space dash space that a link or a URL follows, so that a title may hold
\* a dash of its own.
C22_TitleRunsUpToTheUrl ==
  (Converted /\ ResourceEntries > 0 /\ MalformedEntries = 0) =>
    ItemsMatchEntries(FALSE)

\* An entry with a link, one with a dash in its title and one with a bare
\* URL have been listed.
C22_Witness ==
  /\ Converted
  /\ markdown = Document(<<"resourceLink", "resourceDashed", "resource">>)
  /\ Includes(html, Tag("li") \o <<"c">> \o Dash
                      \o <<"https", ":", "/", "/", "u">> \o CloseTag("li"))
  /\ Includes(html, Tag("li") \o <<"t">> \o Dash \o <<"s">> \o Dash
                      \o <<"http", ":", "/", "/", "u">> \o CloseTag("li"))

(***************************************************************************)
(* C23.  An entry without a URL or link gives no item and leaves the       *)
(* items of the well-formed entries before and after it as they are: in a  *)
(* document with such an entry the items are those of the well-formed      *)
(* entries, each with its own title and URL.                               *)
(***************************************************************************)
C23_MalformedEntriesAreDropped ==
  (Converted /\ MalformedEntries > 0) => ItemsMatchEntries(FALSE)

(***************************************************************************)
(* C24.  The title of a resource entry is escaped in its list item: when   *)
(* every <b> of the document is the title of a well-formed entry, the      *)
(* output holds no <b> tag and one item with the escaped title for each.   *)
(***************************************************************************)
\* The entries whose title is the markup <b>.
MarkupTitles ==
  Cardinality({p \in EntryStarts : StartsAt(markdown, p + 9, Tag("b"))})

C24_TitlesAreEscaped ==
  (/\ Converted /\ MalformedEntries = 0
   /\ MarkupTitles > 0
   /\ Occurrences(markdown, Tag("b")) = MarkupTitles) =>
    /\ ~Includes(html, Tag("b"))
    /\ Occurrences(html, Tag("li") \o escapeHtml(Tag("b")) \o Dash)
         = MarkupTitles

(***************************************************************************)
(* C26.  The section tags of the output are balanced and never nested: as  *)
(* many opening as closing tags, an opening tag only after no section tag  *)
(* or a closing one, a closing tag only after an opening one, and the last *)
(* section tag a closing one.                                              *)
(***************************************************************************)
\* The last section tag before position i of the output, 0 without one.
SectionTagBefore(i) ==
  LET P == {j \in 1..(i - 1) : \/ StartsAt(html, j, Tag("section"))
                               \/ StartsAt(html, j, CloseTag("section"))}
  IN  IF P = {} THEN 0 ELSE CHOOSE a \in P : \A b \in P : b <= a

C26_SectionsBalanced ==
  Converted =>
    /\ Occurrences(html, Tag("section"))
         = Occurrences(html, CloseTag("section"))
    /\ \A i \in DOMAIN html :
         /\ StartsAt(html, i, Tag("section")) =>
              \/ SectionTagBefore(i) = 0
              \/ StartsAt(html, SectionTagBefore(i), CloseTag("section"))
         /\ StartsAt(html, i, CloseTag("section")) =>
              /\ SectionTagBefore(i) # 0
              /\ StartsAt(html, SectionTagBefore(i), Tag("section"))
    /\ StartsAt(html, SectionTagBefore(Len(html) + 1), CloseTag("section"))

(***************************************************************************)
(* C27.  A code element that the section 2 post-processing emits for a     *)
(* span holds the text of the span escaped once.                           *)
(***************************************************************************)
C27_SectionTwoEscapesOnce ==
  Converted =>
    \A i \in DOMAIN html :
      StartsAt(html, i, Tag("code")) =>
        StartsAt(html, i + 3,
                 escapeHtml(<<"<", "b", ">">>) \o CloseTag("code"))

(***************************************************************************)
(* C28.  The text of a code span is carried into the output as it is but   *)
(* for escaping: a span with two pairs of stars around a word is emitted   *)
(* as an inline-code span with the stars and the word.                     *)
(***************************************************************************)
C28_CodeSpansAreLiteral ==
  (Converted /\ Includes(markdown, <<Backtick, "*", "*">>)) =>
    Occurrences(html, SpanOpen \o <<"*", "*", "b", "*", "*">>
                        \o CloseTag("span"))
      = Occurrences(markdown, <<Backtick, "*", "*", "b", "*", "*", Backtick>>)

(***************************************************************************)
(* C29.  The extraction of the resources removes the entries only: in a    *)
(* document of well-formed entries, paragraphs and section 8 headings      *)
(* (and no quiz block) every paragraph line, before or after the entries,  *)
(* has its paragraph in the output and every heading line its heading.     *)
(***************************************************************************)
C29_OnlyEntriesAreRemoved ==
  (Converted /\ ResourceEntries > 0 /\ MalformedEntries = 0
   /\ QuizBlocks = 0) =>
    /\ Occurrences(html, Tag("p") \o <<"x">> \o CloseTag("p")) = PlainLines
    /\ Occurrences(html, HeadingEight)
         >= Occurrences(markdown, HeadingEightLine)

(***************************************************************************)
(* C30.  The not-found paths leave the store as it is: a step that answers *)
(* an attempt at an unknown quiz with 404, or an explain request (route or *)
(* tool) for an unknown repository or a missing file with not found,       *)
(* changes no table and no object and has not called the model; and every  *)
(* explanation that an explain request stored names a repository that is   *)
(* stored and a file that is in the bucket under its path.                 *)
(***************************************************************************)
\* The answers of the not-found paths.
IsNotFound(r) ==
  \/ r.route = "POST /quizzes/:id/attempt" /\ r.status = 404
  \/ r.route = "POST /repositories/:id/explain" /\ r.status = 404
  \/ r.route = "explain_code" /\ r.isError

C30_NotFoundLeavesStore ==
  [][/\ (response' # response /\ IsNotFound(response')) =>
          /\ UNCHANGED <<repositories, explanations, quizzes, quizAttempts,
                         r2>>
          /\ "aiCalls" \in DOMAIN response' => response'.aiCalls = 0
     /\ \A e \in DOMAIN explanations' :
          explanations'[e].explanationType = "function" =>
            \E r \in DOMAIN repositories' :
              /\ repositories'[r].id = explanations'[e].repositoryId
              /\ <<repositories'[r].r2Path, explanations'[e].filePath>>
                   \in r2'
    ]_vars

\* The tool has answered that the file was not found while an explanation
\* and an attempt are stored.
C30_Witness ==
  /\ response.route = "explain_code"
  /\ response.isError /\ response.text = "File not found"
  /\ explanations # <<>> /\ quizAttempts # <<>>


(***************************************************************************)
(* The diagrams of the HTML view.                                          *)
(***************************************************************************)
\* The view of the stored analysis has been served as HTML.
ViewedHtml ==
  /\ response.route = "GET /repositories/:id/explanations"
  /\ response.status = 200
  /\ "html" \in DOMAIN response

\* The three diagrams: the earlier heading, the text that opens the later
\* heading, the alternative text and the file path of the row.
DiagramPair(k) ==
  CASE k = 1 ->
         [from |-> Tag("h2") \o <<"4", ".", " ", "PROJECT STRUCTURE">>
                   \o CloseTag("h2"),
          to |-> Tag("h2") \o <<"5", ".", " ", "DATA FLOW ARCHITECTURE">>
                 \o CloseTag("h2"),
          alt |-> "Project Structure Diagram",
          filePath |-> "comprehensive-analysis"]
    [] k = 2 ->
         [from |-> Tag("h2") \o <<"5", ".", " ", "DATA FLOW ARCHITECTURE">>
                   \o CloseTag("h2"),
          to |-> Tag("h2") \o <<"6", ".", " ", "CODE ANALOGIES">>,
          alt |-> "State & Props Flow Tree Structure",
          filePath |-> "data-flow-diagram"]
    [] k = 3 ->
         [from |-> Tag("h2")
                   \o <<"6", ".", " ", "CODE ANALOGIES", " & EXPLANATIONS">>
                   \o CloseTag("h2"),
          to |-> Tag("h2") \o <<"7", ".", " ", "LEARNING QUIZ">>,
          alt |-> "Code Analogies & Visual Explanations",
          filePath |-> "code-analogies-diagram"]

\* The URL stored for diagram k, empty when there is none.
StoredUrl(k) ==
  LET rows == Where(explanations, "filePath", DiagramPair(k).filePath)
  IN  IF rows = <<>> THEN <<>> ELSE rows[1].diagramUrl

\* The block of diagram k as the view writes it.
ExpectedBlock(k) ==
  <<"<div class=\"diagram\"><img src=\"">> \o StoredUrl(k)
  \o <<"\" alt=\"", DiagramPair(k).alt,
       "\" style=\"max-width: 100%; height: auto;\"/></div>">>

\* Where the block of diagram k stands in the served HTML.
BlockAt(k) ==
  {i \in 1..Len(response.html) :
     /\ response.html[i] = "<div class=\"diagram\"><img src=\""
     /\ \E j \in (i + 1)..Len(response.html) :
          /\ response.html[j] = DiagramPair(k).alt
          /\ \A m \in (i + 1)..(j - 1) :
               response.html[m]
                 # "\" style=\"max-width: 100%; height: auto;\"/></div>"}

\* Both headings of pair k stand in the rendered analysis `base`, in order.
HeadingsInOrder(k, base) ==
  \E i \in 1..Len(base) :
    /\ StartsAt(base, i, DiagramPair(k).from)
    /\ \E j \in (i + 1)..Len(base) : StartsAt(base, j, DiagramPair(k).to)

\* The HTML `served` without the tokens of diagram blocks.
WithoutBlocks(served) ==
  SelectSeq(served,
            LAMBDA c : c \notin
              {"<div class=\"diagram\"><img src=\"",
               "data:image/svg+xml;base64,", "P", "F", "A", "\" alt=\"",
               "Project Structure Diagram",
               "State & Props Flow Tree Structure",
               "Code Analogies & Visual Explanations",
               "\" style=\"max-width: 100%; height: auto;\"/></div>"})

\* C25: in the HTML view each of the three diagram blocks is inserted at
\* most once, exactly when its URL is stored and both headings of its pair
\* stand in the rendered analysis in order, and then immediately before the
\* later heading; nothing else of the HTML changes.
C25_DiagramsBeforeLaterHeading ==
  ViewedHtml /\ explanations # <<>> =>
    /\ WithoutBlocks(response.html)
         = markdownToHtml(explanations[1].content)
    /\ \A k \in 1..3 :
         /\ Cardinality(BlockAt(k))
              = IF StoredUrl(k) # <<>>
                   /\ HeadingsInOrder(k, WithoutBlocks(response.html))
                THEN 1 ELSE 0
         /\ \A i \in BlockAt(k) :
              /\ StartsAt(response.html, i, ExpectedBlock(k))
              /\ StartsAt(response.html, i + Len(ExpectedBlock(k)),
                          DiagramPair(k).to)

\* All three diagrams have been inserted into one view.
C25_Witness ==
  /\ ViewedHtml
  /\ \A k \in 1..3 : Cardinality(BlockAt(k)) = 1

\* A view that left the HTML alone for want of a heading or of a URL.
C25_WitnessUnchanged ==
  /\ ViewedHtml
  /\ explanations # <<>>
  /\ Includes(response.html, Tag("h2"))
  /\ \A k \in 1..3 : BlockAt(k) = {}
  /\ \E k \in 1..3 :
       StoredUrl(k) # <<>> /\ ~HeadingsInOrder(k, response.html)

=============================================================================
